---- MODULE Spec2Model ----
(***************************************************************************)
(* SymSolver: the equation-classification-and-derivation engine.           *)
(*                                                                         *)
(* The engine is a pure function of (input text, arithmetic mode).  The    *)
(* model draws an input text from a bounded set, and one action per entry  *)
(* point applies the whole solve to it and stores the returned Trail (or   *)
(* the raised error).                                                      *)
(*                                                                         *)
(* Input text is a sequence of tokens: signed terms (coefficient times a   *)
(* monomial or function atom), '=' signs, ','/';' separators and single    *)
(* characters.  SymPy expressions are sums of monomials with integer       *)
(* coefficients: a function from the monomials to the coefficients.        *)
(*                                                                         *)
(* Further machines stand beside the solver.  DisplaySpec applies the      *)
(* coefficient check to an equation coeff*x = rhs with rational coeff and  *)
(* rhs and keeps the display strings it writes.  StorageSpec is the        *)
(* history store of gui/storage.py: register a user, add and clear records.*)
(* LexSpec applies _detect_variables and _expand_implicit_vars to a raw    *)
(* string of characters.  GuiSpec is the window of gui/app.py: sends,      *)
(* solver threads, Stop, Clear and the after() callbacks of the main loop; *)
(* GuiLiveSpec adds the fairness of the threads and of the main loop.      *)
(* The graph analyzer of solver/graph.py is an action of the solver        *)
(* machine: it reads the result the solve has stored.                      *)
(***************************************************************************)
EXTENDS Integers, Sequences, FiniteSets, TLC

\* ---------------------------------------------------------------- bounds
\* Coefficients and constants of the generated single equations: -MaxCoef..MaxCoef.
MaxCoef == 2
\* Coefficients and constants of the generated systems: -MaxSysCoef..MaxSysCoef.
MaxSysCoef == 1
\* Numerators and denominators of the coefficient and the right side at the
\* coefficient check: -MaxNum..MaxNum over 1..MaxDen.
MaxNum == 3
MaxDen == 3
\* Calls of add_history in one run of the history store.
MaxAdds == 102
\* Characters of the generated raw strings handed to the variable detector.
MaxChars == 5
\* Equations sent in one run of the window, and presses of Stop or Clear.
MaxSends == 2
MaxGen == 2

VARIABLES
    op,        \* the entry point the caller uses: "solve" or "substitution"
    text,      \* the equation text handed to the entry point
    values,    \* the assignments text of a substitution call (else empty)
    trail,     \* per arithmetic mode: what the call in that mode returned or
               \* raised, Pending before that call was made
    work,      \* the equation coeff*x = rhs that reaches the coefficient check
    display,   \* what the coefficient check wrote for it: the expression of
               \* the division step and the final answer
    db,        \* gui/storage.py, db["users"]: per registered user key the
               \* stored history
    clock,     \* time.time(): the number of records written so far
    source,    \* a raw string handed to _detect_variables, as characters
    lexed,     \* what _detect_variables returned or raised for it, and what
               \* _expand_implicit_vars then handed to the parser
    analysis,  \* per arithmetic mode: the case the graph analyzer gave the
               \* result of that mode
    solve_gen,     \* gui/app.py, _solve_gen: the generation counter
    input_enabled, \* the entry accepts text and the Solve button is shown
    solves,        \* per equation sent: its worker thread, the generation it
                   \* captured, its "Processing..." label and its chat frame
    timers,        \* the callbacks handed to after() and not yet run
    anim_queue,    \* _anim_queue, with the solve that built it
    anim_idx,      \* _anim_idx
    fired          \* the callback the main loop ran last and what it did

solver_vars == <<op, text, values, trail, work, display, db, clock, source, lexed, analysis>>
gui_vars == <<solve_gen, input_enabled, solves, timers, anim_queue, anim_idx, fired>>
vars == <<solver_vars, gui_vars>>

Modes == {"symbolic", "numerical"}

\* ---------------------------------------------------------------- helpers
Abs(n) == IF n < 0 THEN -n ELSE n
Sign(n) == IF n < 0 THEN -1 ELSE IF n > 0 THEN 1 ELSE 0
Max(a, b) == IF a >= b THEN a ELSE b

RECURSIVE GCD(_, _)
GCD(a, b) == IF b = 0 THEN Abs(a) ELSE GCD(b, a % b)

\* Exact rationals (SymPy Rational): <<numerator, denominator>>, denominator > 0,
\* in lowest terms.
Rat(n, d) ==
    LET g == GCD(Abs(n), Abs(d))
        s == IF d < 0 THEN -1 ELSE 1
    IN  <<(s * n) \div g, (s * d) \div g>>
RInt(n) == <<n, 1>>
RAdd(a, b) == Rat(a[1] * b[2] + b[1] * a[2], a[2] * b[2])
RNeg(a) == <<-a[1], a[2]>>
RSub(a, b) == RAdd(a, RNeg(b))
RMul(a, b) == Rat(a[1] * b[1], a[2] * b[2])
RDiv(a, b) == Rat(a[1] * b[2], a[2] * b[1])
RZero == <<0, 1>>

\* ---------------------------------------------------------------- float64
\* Python float / numpy.float64 arithmetic (numerical.py: float(), /, the
\* Float products and sums of expr.subs, abs(...) < 1e-10, _fmt_num) is IEEE 754
\* binary64 with round-to-nearest-even.  A mantissa has 53 bits, more than an
\* integer of the model checker holds, so naturals are kept as little-endian
\* sequences of limbs in base 2^14 with no leading zero limb.
Base == 2^14

RECURSIVE BNorm(_)
BNorm(a) ==
    IF a = <<>> THEN a
    ELSE IF a[Len(a)] = 0 THEN BNorm(SubSeq(a, 1, Len(a) - 1)) ELSE a
RECURSIVE BFromInt(_)
BFromInt(n) == IF n = 0 THEN <<>> ELSE <<n % Base>> \o BFromInt(n \div Base)
RECURSIVE BToInt(_)
BToInt(a) == IF a = <<>> THEN 0 ELSE a[1] + Base * BToInt(Tail(a))
BRest(a) == IF a = <<>> THEN a ELSE Tail(a)
BLow(a) == IF a = <<>> THEN 0 ELSE a[1]
RECURSIVE BAddC(_, _, _)
BAddC(a, b, c) ==
    IF a = <<>> /\ b = <<>> THEN (IF c = 0 THEN <<>> ELSE <<c>>)
    ELSE LET x == BLow(a) + BLow(b) + c
         IN  <<x % Base>> \o BAddC(BRest(a), BRest(b), x \div Base)
BAdd(a, b) == BAddC(a, b, 0)
\* a - b for a >= b
RECURSIVE BSubC(_, _, _)
BSubC(a, b, c) ==
    IF a = <<>> THEN <<>>
    ELSE LET x == a[1] - BLow(b) - c
         IN  <<x % Base>> \o BSubC(Tail(a), BRest(b), IF x < 0 THEN 1 ELSE 0)
BSub(a, b) == BNorm(BSubC(a, b, 0))
\* -1, 0, 1 as a < b, a = b, a > b
RECURSIVE BCmpTop(_, _, _)
BCmpTop(a, b, i) ==
    IF i = 0 THEN 0
    ELSE IF a[i] < b[i] THEN -1
    ELSE IF a[i] > b[i] THEN 1
    ELSE BCmpTop(a, b, i - 1)
BCmp(a, b) ==
    IF Len(a) < Len(b) THEN -1
    ELSE IF Len(a) > Len(b) THEN 1
    ELSE BCmpTop(a, b, Len(a))
\* a * k + c for a small k (k < 2^16)
RECURSIVE BMulSmallC(_, _, _)
BMulSmallC(a, k, c) ==
    IF a = <<>> THEN BFromInt(c)
    ELSE LET x == a[1] * k + c
         IN  <<x % Base>> \o BMulSmallC(Tail(a), k, x \div Base)
BMulSmall(a, k) == IF k = 0 THEN <<>> ELSE BMulSmallC(a, k, 0)
BShiftLimbs(a, n) == IF a = <<>> THEN a ELSE [i \in 1..n |-> 0] \o a
RECURSIVE BMul(_, _)
BMul(a, b) ==
    IF b = <<>> \/ a = <<>> THEN <<>>
    ELSE BAdd(BMulSmall(a, b[1]), BShiftLimbs(BMul(a, Tail(b)), 1))
\* quotient and remainder of a by a small d (d < 2^16)
RECURSIVE BDivSmall(_, _)
BDivSmall(a, d) ==
    IF a = <<>> THEN [q |-> <<>>, r |-> 0]
    ELSE LET hi == BDivSmall(Tail(a), d)
             cur == hi.r * Base + a[1]
         IN  [q |-> <<cur \div d>> \o hi.q, r |-> cur % d]
BShl(a, n) == BShiftLimbs(BMulSmall(a, 2^(n % 14)), n \div 14)
BShr(a, n) ==
    IF n \div 14 >= Len(a) THEN <<>>
    ELSE BNorm(BDivSmall(SubSeq(a, (n \div 14) + 1, Len(a)), 2^(n % 14)).q)
RECURSIVE IntBitLen(_)
IntBitLen(n) == IF n = 0 THEN 0 ELSE 1 + IntBitLen(n \div 2)
BBitLen(a) == IF a = <<>> THEN 0 ELSE 14 * (Len(a) - 1) + IntBitLen(a[Len(a)])
BOdd(a) == BLow(a) % 2 = 1

\* The element of a one-element set.  The({e(x) : x \in {v}}) is e with x
\* bound to the value of v, computed once.
The(S) == CHOOSE r \in S : TRUE

\* n / 2^k rounded to the nearest integer, ties to even; up tells which way
\* and rem is n mod 2^k.
RoundShiftOf(q, rem, up) ==
    [n |-> IF up THEN BAdd(q, <<1>>) ELSE q, up |-> up, rem |-> rem]
RoundShiftAt(q, rem, c) == RoundShiftOf(q, rem, c > 0 \/ (c = 0 /\ BOdd(q)))
RoundShiftFrom(q, rem, k) ==
    RoundShiftAt(q, rem, BCmp(BMulSmall(rem, 2), BShl(<<1>>, k)))
RoundShiftBy(n, k, q) == RoundShiftFrom(q, BSub(n, BShl(q, k)), k)
RoundShift(n, k) == RoundShiftBy(n, k, BShr(n, k))

\* A float: sign s (0 for zero), mantissa m with exactly 53 bits, exponent e;
\* the value is s * m * 2^e.  Magnitudes stay far from overflow and underflow.
FZero == [s |-> 0, m |-> <<>>, e |-> 0]
\* The rounded mantissa q at exponent e; a carry out of 53 bits is shifted back.
FPack(s, q, e) ==
    IF BBitLen(q) > 53 THEN [s |-> s, m |-> BShr(q, 1), e |-> e + 1]
    ELSE [s |-> s, m |-> q, e |-> e]
\* s * n * 2^e with sh bits too many (sh <= 0: with -sh bits to spare).
FRoundBy(s, n, e, sh) ==
    IF sh <= 0 THEN [s |-> s, m |-> BShl(n, -sh), e |-> e + sh]
    ELSE FPack(s, RoundShift(n, sh).n, e + sh)
\* s * n * 2^e rounded to nearest, ties to even.
FRound(s, n, e) ==
    IF n = <<>> \/ s = 0 THEN FZero ELSE FRoundBy(s, n, e, BBitLen(n) - 53)
\* float(n) of an integer n
FFromInt(n) == FRound(Sign(n), BFromInt(Abs(n)), 0)
FNeg(a) == [a EXCEPT !.s = -a.s]
FAbs(a) == [a EXCEPT !.s = Abs(a.s)]
\* -1, 0, 1 as |a| < |b|, |a| = |b|, |a| > |b|
FCmpAbs(a, b) ==
    IF a.s = 0 THEN (IF b.s = 0 THEN 0 ELSE -1)
    ELSE IF b.s = 0 THEN 1
    ELSE IF a.e < b.e THEN -1
    ELSE IF a.e > b.e THEN 1
    ELSE BCmp(a.m, b.m)
\* hs * big * 2^e + ls * lm * 2^e; ge tells big >= lm.
FAddAligned(hs, big, ls, lm, e, ge) ==
    FRound(IF hs = ls \/ ge THEN hs ELSE ls,
           IF hs = ls THEN BAdd(big, lm)
           ELSE IF ge THEN BSub(big, lm) ELSE BSub(lm, big), e)
FAddShifted(hs, big, ls, lm, e) ==
    FAddAligned(hs, big, ls, lm, e, BCmp(big, lm) >= 0)
\* hi + lo for hi.e >= lo.e.  An operand more than 60 binary places below
\* the other cannot change the rounded sum.
FAddOrdered(hi, lo) ==
    IF hi.e - lo.e > 60 THEN hi
    ELSE FAddShifted(hi.s, BShl(hi.m, hi.e - lo.e), lo.s, lo.m, lo.e)
\* a + b
FAdd(a, b) ==
    IF a.s = 0 THEN b
    ELSE IF b.s = 0 THEN a
    ELSE FAddOrdered(IF a.e >= b.e THEN a ELSE b, IF a.e >= b.e THEN b ELSE a)
FSub(a, b) == FAdd(a, FNeg(b))
FMul(a, b) == FRound(a.s * b.s, BMul(a.m, b.m), a.e + b.e)
\* Long division: one more quotient bit of r / d onto q; r2 is 2 r.
DivStepBit(q, r2, d, bit) ==
    [q |-> BMulSmallC(q, 2, IF bit THEN 1 ELSE 0),
     r |-> IF bit THEN BSub(r2, d) ELSE r2]
DivStepOn(q, r2, d) == DivStepBit(q, r2, d, BCmp(r2, d) >= 0)
DivStep(p, d) ==
    IF p.r = <<>> THEN [q |-> BMulSmall(p.q, 2), r |-> <<>>]
    ELSE DivStepOn(p.q, BMulSmall(p.r, 2), d)
RECURSIVE DivSteps(_, _, _)
DivSteps(p, d, n) == IF n = 0 THEN p ELSE DivStep(DivSteps(p, d, n - 1), d)
\* Eight more quotient bits.
DivByte(prev, d) ==
    IF prev.r = <<>> THEN [q |-> BShl(prev.q, 8), r |-> <<>>]
    ELSE DivSteps(prev, d, 8)
\* k times eight more quotient bits.
RECURSIVE DivBits(_, _, _)
DivBits(p, d, k) == IF k = 0 THEN p ELSE DivByte(DivBits(p, d, k - 1), d)
\* The leading quotient bit of am / bm (both of 53 bits).
DivStart(am, bm, first) ==
    [q |-> IF first THEN <<1>> ELSE <<>>, r |-> IF first THEN BSub(am, bm) ELSE am]
FDivOf(s, qr, e) == FRound(s, BMulSmallC(qr.q, 2, IF qr.r = <<>> THEN 0 ELSE 1), e)
\* a / b for b # 0: 57 quotient bits and a sticky bit decide the rounding.
FDiv(a, b) ==
    IF a.s = 0 THEN FZero
    ELSE FDivOf(a.s * b.s, DivBits(DivStart(a.m, b.m, BCmp(a.m, b.m) >= 0), b.m, 7),
                a.e - b.e - 57)

\* The float literals 1e-10 (verification tolerance), 1e-12 (_fmt_num) and
\* 1e-14 (singular determinant).
Tol10 == [s |-> 1, m |-> <<15803, 10078, 3581, 1759>>, e |-> -86]
Tol12 == [s |-> 1, m |-> <<10769, 1207, 14744, 1125>>, e |-> -92]
Tol14 == [s |-> 1, m |-> <<11163, 6788, 2488, 1441>>, e |-> -99]
FLess(a, b) ==
    IF a.s # b.s THEN a.s < b.s
    ELSE IF a.s >= 0 THEN FCmpAbs(a, b) < 0
    ELSE FCmpAbs(a, b) > 0

\* A printed decimal: sign, integer part, fractional digits.
Dec(neg, ip, fd) == [neg |-> neg, ip |-> ip, fd |-> fd]
RECURSIVE StripZeros(_)
StripZeros(fd) ==
    IF fd = <<>> THEN fd
    ELSE IF fd[Len(fd)] = 0 THEN StripZeros(SubSeq(fd, 1, Len(fd) - 1)) ELSE fd
\* The k lowest decimal digits of n and what is above them.
LowDigitsOf(rest, digit) == [ip |-> rest.ip, fd |-> Append(rest.fd, digit)]
RECURSIVE LowDigits(_, _)
RECURSIVE LowDigitsBy(_, _)
LowDigitsBy(qr, k) == LowDigitsOf(LowDigits(BNorm(qr.q), k - 1), qr.r)
LowDigits(n, k) ==
    IF k = 0 THEN [ip |-> n, fd |-> <<>>]
    ELSE IF n = <<>> THEN [ip |-> n, fd |-> [i \in 1..k |-> 0]]
    ELSE LowDigitsBy(BDivSmall(n, 10), k)
\* "%.10f" of m * 2^(-k): the decimal digits of m * 10^10 / 2^k rounded.
fmt_fixed(neg, m, k) ==
    The({Dec(neg, BToInt(parts.ip), StripZeros(parts.fd)) :
            parts \in {LowDigits(RoundShift(
                           BMulSmall(BMulSmall(BMulSmall(m, 10000), 10000), 100), k).n,
                           10)}})
\* abs(value - round(value)) < 1e-12, the distance dist in units of 2^-k.
near_integer(dist, k) ==
    IF k <= -Tol12.e
    THEN BCmp(BShl(dist, (-Tol12.e) - k), Tol12.m) < 0
    ELSE BCmp(dist, BShl(Tol12.m, k + Tol12.e)) < 0
fmt_rounded(v, k, rnd) ==
    IF near_integer(IF rnd.up THEN BSub(BShl(<<1>>, k), rnd.rem) ELSE rnd.rem, k)
    THEN Dec(v.s < 0 /\ rnd.n # <<>>, BToInt(rnd.n), <<>>)
    ELSE fmt_fixed(v.s < 0, v.m, k)
\* _fmt_num: the integer when the float is within 1e-12 of it, else the float
\* printed with ten decimals ("%.10f", correctly rounded), trailing zeros and
\* a trailing point removed.
fmt_num(v) ==
    IF v.s = 0 THEN Dec(FALSE, 0, <<>>)
    ELSE IF v.e >= 0 THEN Dec(v.s < 0, BToInt(BShl(v.m, v.e)), <<>>)
    ELSE fmt_rounded(v, -v.e, RoundShift(v.m, -v.e))

\* ---------------------------------------------------------------- tokens
\* The monomials and atoms a term can be a multiple of.  "1" is a constant
\* term; "sqrt(x)" is x**(1/2): neither a polynomial, nor a function of
\* _TRANS_FUNC_NAMES, nor a denominator.
Monos == {"1", "x", "y", "x^2", "xy", "1/x", "sin(x)", "sqrt(x)"}

Tok(t, c, k) == [t |-> t, c |-> c, k |-> k]
EqTok == Tok("eq", 0, "=")
SepTok == Tok("sep", 0, ",")
\* c times the monomial k, as typed; a zero coefficient is no term at all.
Term(c, k) == IF c = 0 THEN <<>> ELSE <<Tok("term", c, k)>>

\* The letters of the alphabetic runs of a term that are not reserved names
\* (sin and sqrt are reserved; the x inside their parentheses is its own run).
LettersOf(k) ==
    CASE k = "1" -> {}
      [] k = "y" -> {"y"}
      [] k = "xy" -> {"x", "y"}
      [] OTHER -> {"x"}

\* Unicode glyphs are rewritten to parser names before validation: the square
\* root sign U+221A (a term typed as U+221A(x) has kind "U221A(x)") becomes sqrt.
NormaliseTok(tk) ==
    IF tk.t = "term" /\ tk.k = "U221A(x)" THEN Tok("term", tk.c, "sqrt(x)") ELSE tk
Normalise(s) == [i \in DOMAIN s |-> NormaliseTok(s[i])]

\* _validate_characters: the set of characters outside the allowed set.
validate_characters(s) == {s[i].k : i \in {j \in DOMAIN s : s[j].t = "bad"}}

\* str.split on a token type: the pieces between the tokens of type t
\* (n tokens give n + 1 pieces, empty pieces kept).
RECURSIVE SplitOn(_, _)
SplitOn(s, t) ==
    IF \A i \in DOMAIN s : s[i].t # t THEN <<s>>
    ELSE LET i == CHOOSE j \in DOMAIN s :
                     s[j].t = t /\ \A m \in 1..(j - 1) : s[m].t # t
         IN  <<SubSeq(s, 1, i - 1)>> \o SplitOn(SubSeq(s, i + 1, Len(s)), t)

\* re.split on , and ; with the empty pieces dropped.
raw_equations(s) == SelectSeq(SplitOn(s, "sep"), LAMBDA e : e # <<>>)

\* _detect_variables: the sorted letters of the text; the empty set raises.
detect_variables(s) ==
    UNION {LettersOf(s[i].k) : i \in {j \in DOMAIN s : s[j].t = "term"}}
\* sorted(candidates) over the letters x, y.
var_names(s) ==
    LET c == detect_variables(s)
    IN  (IF "x" \in c THEN <<"x">> ELSE <<>>) \o (IF "y" \in c THEN <<"y">> ELSE <<>>)

\* ---------------------------------------------------------------- expressions
ZeroExpr == [m \in Monos |-> 0]
ExprAdd(e, f) == [m \in Monos |-> e[m] + f[m]]
ExprSub(e, f) == [m \in Monos |-> e[m] - f[m]]

\* _parse_side: the sum of the typed terms, like terms combined by SymPy.
\* An empty side does not parse.
RECURSIVE SumTerms(_)
SumTerms(s) ==
    IF s = <<>> THEN ZeroExpr
    ELSE LET r == SumTerms(Tail(s))
         IN  [r EXCEPT ![Head(s).k] = @ + Head(s).c]
parse_ok(s) == s # <<>> /\ \A i \in DOMAIN s : s[i].t = "term"
parse_side(s) == SumTerms(s)

\* The degree of monomial m in variable v, and its total degree.
DegIn(m, v) ==
    CASE m = "x" /\ v = "x" -> 1
      [] m = "y" /\ v = "y" -> 1
      [] m = "x^2" /\ v = "x" -> 2
      [] m = "xy" -> 1
      [] OTHER -> 0
TotalDeg(m) == DegIn(m, "x") + DegIn(m, "y")
NonPoly == {"1/x", "sin(x)", "sqrt(x)"}
Support(e) == {m \in Monos : e[m] # 0}
free_symbols(e) == UNION {LettersOf(m) : m \in Support(e)}

SetMax(S) == CHOOSE n \in S : \A m \in S : m <= n

\* expr.as_poly(v): None when a non-polynomial atom contains the generator.
as_poly_is_none(e, v) == \E m \in Support(e) : m \in NonPoly /\ v \in LettersOf(m)
\* Poly.degree(): -1 stands for the zero polynomial's -oo.
poly_degree(e, v) ==
    IF Support(e) = {} THEN -1 ELSE SetMax({DegIn(m, v) : m \in Support(e)})
\* expr.as_poly(*vars): None when a non-polynomial atom contains any generator.
total_poly_is_none(e, vs) ==
    \E m \in Support(e) : m \in NonPoly /\ LettersOf(m) \cap vs # {}
total_degree(e) ==
    IF Support(e) = {} THEN -1 ELSE SetMax({TotalDeg(m) : m \in Support(e)})

\* _has_transcendental, _has_var_in_denominator
has_transcendental(e, vs) == e["sin(x)"] # 0 /\ "x" \in vs
has_var_in_denominator(e, vs) == e["1/x"] # 0 /\ "x" \in vs

\* The highest single-variable degree over vs (None polynomials skipped).
max_single_degree(e, vs) ==
    SetMax({0} \cup {poly_degree(e, v) : v \in {w \in vs : ~as_poly_is_none(e, w)}})
\* max_degree of the multi-variable and system paths: single degrees, then the
\* total degree when the joint polynomial exists.
max_degree(e, vs) ==
    LET ms == max_single_degree(e, vs)
    IN  IF ~total_poly_is_none(e, vs) /\ total_degree(e) > ms
        THEN total_degree(e) ELSE ms

\* A _detect_nonlinear_reason without the product case.
detect_nonlinear_reason_no_product(e, vs, highest_deg) ==
    IF has_transcendental(e, vs) THEN "transcendental"
    ELSE IF has_var_in_denominator(e, vs) THEN "denominator"
    ELSE "degree"
\* _detect_nonlinear_reason
detect_nonlinear_reason(e, vs, highest_deg) ==
    IF has_transcendental(e, vs) THEN "transcendental"
    ELSE IF has_var_in_denominator(e, vs) THEN "denominator"
    ELSE IF Cardinality(vs) > 1 /\ highest_deg >= 2 /\ max_single_degree(e, vs) <= 1
         THEN "product"
    ELSE "degree"

\* ---------------------------------------------------------------- trails
\* A displayed equation of the single-variable engine: both sides as
\* <<coefficient of the variable, constant>>, each a rational.
Lin(cv, c1) == <<cv, c1>>
NoLin == Lin(RZero, RZero)

\* One step of a trail.  description is the step's heading; term the moved
\* term, the divisor or the value the heading names (a Lin: 3x is <<3, 0>>, 5 is
\* <<0, 5>>); lhs and rhs the equation after the step; step_number the number
\* the engine writes into the step before it returns (0: not yet written).
Step(d, t, l, r) ==
    [description |-> d, term |-> t, lhs |-> l, rhs |-> r, step_number |-> 0]
Note(d) == Step(d, NoLin, NoLin, NoLin)

\* A value shown in an answer or a check: an exact rational q, or (decimal)
\* the printed decimal dec of a float.
NoDec == [neg |-> FALSE, ip |-> 0, fd |-> <<>>]
Exact(q) == [form |-> "exact", q |-> q, dec |-> NoDec]
Decimal(dc) == [form |-> "decimal", q |-> RZero, dec |-> dc]
NoValue == [form |-> "none", q |-> RZero, dec |-> NoDec]

\* A verification step: its heading, the two evaluated sides and whether it
\* is marked as passing.
Check(d, l, r, ok) ==
    [description |-> d, lhs |-> l, rhs |-> r, ok |-> ok, step_number |-> 0]

\* final_answer: the kind of answer and, per variable, the value ("free" for
\* a free variable, "param" for an expression in the other variables).
Answer(tag, vals) == [tag |-> tag, vals |-> vals]

Pending ==
    [kind |-> "pending", error |-> "", bad |-> {}, method |-> "", steps |-> <<>>,
     final_answer |-> Answer("", <<>>), verification_steps |-> <<>>,
     validation_status |-> "", nonlinear_education |-> FALSE,
     reason |-> "", degree |-> 0]

\* raise ValueError(...): the input errors.
InputError(e, bad) == [Pending EXCEPT !.kind = "error", !.error = e, !.bad = bad]
\* Any other exception escaping the entry point.
Crash(e) == [Pending EXCEPT !.kind = "crash", !.error = e]

\* A numbering of the steps that starts at 0.
number_steps_from_zero(steps) ==
    [i \in DOMAIN steps |-> [steps[i] EXCEPT !.step_number = i - 1]]
\* for i, step in enumerate(steps, start=1): step["step_number"] = i
number_steps(steps) ==
    [i \in DOMAIN steps |-> [steps[i] EXCEPT !.step_number = i]]
\* The returned dict; every return numbers the steps and the verification
\* steps it has collected just before it builds the dict.
\* validation_status "absent": the summary has no such key.
Trail(method, steps, final, ver, status) ==
    [Pending EXCEPT !.kind = "trail", !.method = method,
                    !.steps = number_steps(steps),
                    !.final_answer = final,
                    !.verification_steps = number_steps(ver),
                    !.validation_status = status]

\* ---------------------------------------------------------------- nonlinear
\* A _nonlinear_error_result that raises for a variable in a denominator.
nonlinear_trail_raising(reason, highest_deg) ==
    IF reason = "denominator" THEN InputError("Equation is not linear", {})
    ELSE [Trail("Linearity Check",
                <<Note("Starting with the original equation")>>
                    \o (IF reason = "transcendental"
                        THEN <<Note("Identify transcendental function")>> ELSE <<>>),
                Answer(reason, <<>>), <<>>, "absent")
             EXCEPT !.nonlinear_education = TRUE, !.reason = reason,
                    !.degree = highest_deg]
\* _nonlinear_error_result: the algebra trail and the educational message.
\* lhs and rhs are already expanded sums here, so the "Expand and combine
\* like terms" step (expand changes a side) is never due.
nonlinear_trail(reason, highest_deg) ==
    [Trail("Linearity Check",
           <<Note("Starting with the original equation")>>
               \o (IF reason = "denominator"
                   THEN <<Note("Identify variable in denominator")>> ELSE <<>>)
               \o (IF reason = "transcendental"
                   THEN <<Note("Identify transcendental function")>> ELSE <<>>),
           Answer(reason, <<>>), <<>>, "absent")
        EXCEPT !.nonlinear_education = TRUE, !.reason = reason,
               !.degree = highest_deg]
\* The reason is detected afresh when the caller gave the default "degree".
nonlinear_reason(combined, vs, reason0, highest_deg) ==
    nonlinear_trail(IF reason0 = "degree" /\ highest_deg >= 2
                    THEN detect_nonlinear_reason(combined, vs, highest_deg)
                    ELSE reason0,
                    highest_deg)
\* The degree is recomputed; the caller's degree stands when that is below 2.
nonlinear_degree(combined, vs, degree, reason0, hd0) ==
    nonlinear_reason(combined, vs, reason0, IF hd0 < 2 THEN degree ELSE hd0)
nonlinear_error_result(lhs, rhs, vs, degree, reason0) ==
    nonlinear_degree(ExprSub(lhs, rhs), vs, degree, reason0,
                     max_degree(ExprSub(lhs, rhs), vs))

\* ---------------------------------------------------------------- single variable, exact
\* The '=' checks without the check for an empty side.
equation_shape_error_sides_unchecked(s) ==
    LET parts == SplitOn(s, "eq")
    IN  IF Len(parts) = 1 THEN "Equation must contain '='"
        ELSE IF Len(parts) # 2 THEN "exactly one '=' sign"
        ELSE ""
\* The '=' checks of the single-equation paths; "" when the text passes.
equation_shape_error(s) ==
    LET parts == SplitOn(s, "eq")
    IN  IF Len(parts) = 1 THEN "Equation must contain '='"
        ELSE IF Len(parts) # 2 THEN "exactly one '=' sign"
        ELSE IF parts[1] = <<>> \/ parts[2] = <<>>
             THEN "Both sides must have expressions"
        ELSE ""

\* The linearity check on lhs - rhs in the one variable v: degree 1 with
\* reason "linear" when the isolation goes ahead, the degree and reason handed
\* to _nonlinear_error_result, or reason "unknown" when as_poly gives None and
\* neither detector explains it.
Linearity(degree, reason) == [degree |-> degree, reason |-> reason]
single_linearity(combined, v) ==
    IF as_poly_is_none(combined, v)
    THEN IF v \notin free_symbols(combined) THEN Linearity(1, "linear")
         ELSE IF has_transcendental(combined, {v}) THEN Linearity(1, "transcendental")
         ELSE IF has_var_in_denominator(combined, {v}) THEN Linearity(-1, "denominator")
         ELSE Linearity(0, "unknown")
    ELSE IF poly_degree(combined, v) > 1
         THEN Linearity(poly_degree(combined, v), "degree")
    ELSE Linearity(1, "linear")

\* len(Add.make_args(e)): the number of terms of a parsed side (0 is one term).
NumArgs(e) == IF Support(e) = {} THEN 1 ELSE Cardinality(Support(e))
\* '(' in a typed side / in a formatted side.
TypedParen(toks) == \E i \in DOMAIN toks : toks[i].k \in {"sin(x)", "sqrt(x)"}
ExprParen(e) == e["sin(x)"] # 0 \/ e["sqrt(x)"] # 0
\* The sides a Step shows, read off a linear expression in v.
LinOf(e, v) == Lin(RInt(e[v]), RInt(e["1"]))

\* The "Combine like terms / Expand" step of solve_linear_equation, or no step.
combine_step(v, ltoks, rtoks, lhs, rhs) ==
    LET lhs_term_changed == Len(ltoks) # NumArgs(lhs)
        rhs_term_changed == Len(rtoks) # NumArgs(rhs)
        parens_gone == (TypedParen(ltoks) /\ ~ExprParen(lhs))
                       \/ (TypedParen(rtoks) /\ ~ExprParen(rhs))
        has_parens == TypedParen(ltoks) \/ TypedParen(rtoks)
        terms_decreased == Len(ltoks) > NumArgs(lhs) \/ Len(rtoks) > NumArgs(rhs)
        desc == IF has_parens /\ terms_decreased THEN "Expand and combine like terms"
                ELSE IF has_parens
                     THEN (IF parens_gone /\ ~lhs_term_changed /\ ~rhs_term_changed
                           THEN "Expand and combine like terms" ELSE "Expand")
                ELSE "Combine like terms"
    IN  IF lhs_term_changed \/ rhs_term_changed \/ parens_gone
        THEN <<Step(desc, NoLin, LinOf(lhs, v), LinOf(rhs, v))>>
        ELSE <<>>

\* The verification steps of solve_linear_equation: the solution is put back
\* into the sides as parsed from the text.  The "Compare both sides" step is
\* printed as passing without comparing the two values.
verification_values(lhs_val, rhs_val) ==
    <<Check("Start with the original equation", NoValue, NoValue, TRUE),
      Check("Substitute into both sides", NoValue, NoValue, TRUE),
      Check("Evaluate the left-hand side", lhs_val, NoValue, TRUE),
      Check("Evaluate the right-hand side", NoValue, rhs_val, TRUE),
      Check("Compare both sides", lhs_val, rhs_val, TRUE)>>
verification_symbolic(v, lhs_check, rhs_check, solution) ==
    verification_values(
        Exact(RAdd(RMul(RInt(lhs_check[v]), solution), RInt(lhs_check["1"]))),
        Exact(RAdd(RMul(RInt(rhs_check[v]), solution), RInt(rhs_check["1"]))))

\* The equation being rewritten and the steps taken so far.
Derivation(lhs, rhs, steps) == [lhs |-> lhs, rhs |-> rhs, steps |-> steps]

\* A move of the variable term whose simplification forgets the left side.
move_variable_terms_unmoved(d, v) ==
    IF d.rhs[v] = 0 THEN d
    ELSE Derivation([d.lhs EXCEPT ![v] = @ - d.rhs[v]], [d.rhs EXCEPT ![v] = 0],
                    d.steps \o
                    <<Step(IF d.rhs[v] > 0 THEN "Subtract" ELSE "Add",
                           Lin(RInt(Abs(d.rhs[v])), RZero),
                           LinOf(d.lhs, v), LinOf(d.rhs, v)),
                      Step("Simplify both sides", NoLin,
                           Lin(RInt(d.lhs[v]), RInt(d.lhs["1"])),
                           Lin(RZero, RInt(d.rhs["1"])))>>)
\* Move variable terms from right to left.
move_variable_terms(d, v) ==
    IF d.rhs[v] = 0 THEN d
    ELSE Derivation([d.lhs EXCEPT ![v] = @ - d.rhs[v]], [d.rhs EXCEPT ![v] = 0],
                    d.steps \o
                    <<Step(IF d.rhs[v] > 0 THEN "Subtract" ELSE "Add",
                           Lin(RInt(Abs(d.rhs[v])), RZero),
                           LinOf(d.lhs, v), LinOf(d.rhs, v)),
                      Step("Simplify both sides", NoLin,
                           Lin(RInt(d.lhs[v] - d.rhs[v]), RInt(d.lhs["1"])),
                           Lin(RZero, RInt(d.rhs["1"])))>>)

\* lhs_const_now: what is left of the left side beside the variable term.
lhs_const_now(d, v) == [d.lhs EXCEPT ![v] = 0]
\* lhs_const_now > 0 on an expression with a symbol: bool() of a Relational
\* raises TypeError.
const_is_symbolic(d, v) == Support(lhs_const_now(d, v)) \ {"1"} # {}

\* A move of the constant that leaves out the "Simplify both sides" step.
move_constant_terms_unsimplified(d, v) ==
    IF d.lhs["1"] = 0 THEN d
    ELSE Derivation([d.lhs EXCEPT !["1"] = 0], [d.rhs EXCEPT !["1"] = @ - d.lhs["1"]],
                    d.steps \o
                    <<Step(IF d.lhs["1"] > 0 THEN "Subtract" ELSE "Add",
                           Lin(RZero, RInt(Abs(d.lhs["1"]))),
                           LinOf(d.lhs, v), LinOf(d.rhs, v))>>)
\* Move constant terms from left to right (for a numeric lhs_const_now).
move_constant_terms(d, v) ==
    IF d.lhs["1"] = 0 THEN d
    ELSE Derivation([d.lhs EXCEPT !["1"] = 0], [d.rhs EXCEPT !["1"] = @ - d.lhs["1"]],
                    d.steps \o
                    <<Step(IF d.lhs["1"] > 0 THEN "Subtract" ELSE "Add",
                           Lin(RZero, RInt(Abs(d.lhs["1"]))),
                           LinOf(d.lhs, v), LinOf(d.rhs, v)),
                      Step("Simplify both sides", NoLin,
                           Lin(RInt(d.lhs[v]), RZero),
                           Lin(RInt(d.rhs[v]), RInt(d.rhs["1"] - d.lhs["1"])))>>)

\* A division that is also carried out for the coefficient 1.
divide_steps_always(d, v, solution) ==
    <<Step("Divide both sides", Lin(RZero, RInt(d.lhs[v])),
           LinOf(d.lhs, v), LinOf(d.rhs, v)),
      Step("Simplify to get the answer", NoLin,
           Lin(RInt(1), RZero), Lin(RZero, solution))>>
\* Divide both sides by the coefficient of the variable; simplify() leaves a*v
\* and a number as they are, so no third "Simplify both sides" step is due.
divide_steps(d, v, solution) ==
    IF d.lhs[v] # 1
    THEN <<Step("Divide both sides", Lin(RZero, RInt(d.lhs[v])),
                LinOf(d.lhs, v), LinOf(d.rhs, v)),
           Step("Simplify to get the answer", NoLin,
                Lin(RInt(1), RZero), Lin(RZero, solution))>>
    ELSE <<>>

\* The end of solve_linear_equation: the degenerate trails, or the division,
\* the answer and the verification.
finish(d, v, lhs_check, rhs_check) ==
    IF d.lhs[v] = 0
    THEN IF d.rhs["1"] = 0
         THEN Trail("Algebraic Isolation (Linear - Degenerate)",
                    d.steps \o <<Step("The variable cancels - identity", NoLin,
                                      NoLin, NoLin)>>,
                    Answer("identity", <<>>), <<>>, "absent")
         ELSE Trail("Algebraic Isolation (Linear - Degenerate)",
                    d.steps \o <<Step("The variable cancels - contradiction", NoLin,
                                      NoLin, Lin(RZero, RInt(d.rhs["1"])))>>,
                    Answer("contradiction", <<>>), <<>>, "absent")
    ELSE Trail("Algebraic Isolation (Linear)",
               d.steps \o divide_steps(d, v, Rat(d.rhs["1"], d.lhs[v])),
               Answer("solution", <<Exact(Rat(d.rhs["1"], d.lhs[v]))>>),
               verification_symbolic(v, lhs_check, rhs_check,
                                     Rat(d.rhs["1"], d.lhs[v])),
               "absent")

\* solve_linear_equation from the first step on: the first step shows the
\* sides as typed (_format_input_eq of the two strings), not the parsed ones.
\* expand(lhs) = lhs for a sum of monomials: no "Expand both sides" step.
isolate_from(d, v, lhs, rhs) ==
    IF const_is_symbolic(d, v) THEN Crash("TypeError")
    ELSE finish(move_constant_terms(d, v), v, lhs, rhs)
isolate(v, ltoks, rtoks, lhs, rhs) ==
    isolate_from(
        move_variable_terms(
            Derivation(lhs, rhs,
                       <<Step("Starting with the original equation", NoLin,
                              ltoks, rtoks)>>
                           \o combine_step(v, ltoks, rtoks, lhs, rhs)),
            v),
        v, lhs, rhs)

\* solve_linear_equation, single equation and single variable, after the '='
\* checks: the linearity check, then the isolation.
solve_single_parsed(v, ltoks, rtoks, lhs, rhs, lin) ==
    IF lin.reason = "linear" THEN isolate(v, ltoks, rtoks, lhs, rhs)
    ELSE IF lin.reason = "unknown" THEN InputError("Could not determine the degree", {})
    ELSE nonlinear_error_result(lhs, rhs, {v}, lin.degree, lin.reason)
solve_single_sides(v, ltoks, rtoks, lhs, rhs) ==
    solve_single_parsed(v, ltoks, rtoks, lhs, rhs,
                        single_linearity(ExprSub(lhs, rhs), v))
solve_single_symbolic(s) ==
    IF equation_shape_error(s) # "" THEN InputError(equation_shape_error(s), {})
    ELSE solve_single_sides(var_names(s)[1], SplitOn(s, "eq")[1], SplitOn(s, "eq")[2],
                            parse_side(SplitOn(s, "eq")[1]),
                            parse_side(SplitOn(s, "eq")[2]))

\* ---------------------------------------------------------------- single variable, numeric
\* float(expr.subs(...)): SymPy multiplies and adds Floats of 53 bits, rounding
\* as binary64 does.  vals gives the float put in for x and for y.  The terms
\* are summed with the constant first, then the x and the y term; the sides
\* drawn by Init that reach a numeric evaluation have at most two non-zero
\* terms in one variable, or the three terms of a linear side in x and y.
\* sin and sqrt of a float are not modelled: no drawn text is evaluated with
\* such a term.
SideOrder == <<"1", "x", "y", "x^2", "1/x">>
mono_value(m, vals) ==
    CASE m = "x" -> vals.x
      [] m = "y" -> vals.y
      [] m = "x^2" -> FMul(vals.x, vals.x)
      [] m = "1/x" -> FDiv(FFromInt(1), vals.x)
term_value(c, m, vals) ==
    IF c = 0 THEN FZero
    ELSE IF m = "1" \/ (m = "1/x" /\ vals.x.s = 0) THEN FFromInt(c)
    ELSE FMul(FFromInt(c), mono_value(m, vals))
RECURSIVE side_sum(_, _, _)
side_sum(e, vals, n) ==
    IF n = 0 THEN FZero
    ELSE FAdd(side_sum(e, vals, n - 1), term_value(e[SideOrder[n]], SideOrder[n], vals))
\* x**(-1) at 0.0 is zoo, and float(zoo) raises TypeError (ok = FALSE).
side_value(e, vals) ==
    [ok |-> ~(e["1/x"] # 0 /\ vals.x.s = 0), val |-> side_sum(e, vals, Len(SideOrder))]
\* The substitution of the one variable v.
Subs(v, xf) == [x |-> IF v = "x" THEN xf ELSE FZero, y |-> IF v = "y" THEN xf ELSE FZero]

\* abs(lhs_val - rhs_val) < 1e-10
within_tolerance(lhs_val, rhs_val) == FLess(FAbs(FSub(lhs_val, rhs_val)), Tol10)

\* _build_verification_numeric: three steps; the last one compares the two
\* floats under the absolute tolerance 1e-10.
verification_numeric(shown, ok) ==
    <<Check("Start with the original equation", NoValue, NoValue, TRUE),
      Check("Substitute", shown[1], shown[2], TRUE),
      Check("Compare both sides", shown[1], shown[2], ok)>>
build_verification_numeric(lhs_val, rhs_val) ==
    verification_numeric([i \in {1, 2} |->
                             Decimal(fmt_num(IF i = 1 THEN lhs_val ELSE rhs_val))],
                         within_tolerance(lhs_val, rhs_val))

\* _build_result: the numeric single-variable Trail; validation_status is the
\* literal "pass".
build_result(method_suffix, steps, final, ver) ==
    Trail(IF method_suffix = "" THEN "Numerical Isolation (Linear)"
          ELSE "Numerical Isolation (Linear - Degenerate)",
          steps, final, ver, "pass")

\* The degenerate branch of solve_numeric: coefficient 0.
numeric_degenerate(v, lhs, rhs, const) ==
    build_result("Degenerate",
                 <<Step("Starting with the original equation", NoLin,
                        LinOf(lhs, v), LinOf(rhs, v)),
                   IF const = 0
                   THEN Step("The variable cancels - identity", NoLin, NoLin, NoLin)
                   ELSE Step("The variable cancels - contradiction", NoLin, NoLin,
                             Lin(RZero, RInt(const)))>>,
                 Answer(IF const = 0 THEN "identity" ELSE "contradiction", <<>>),
                 <<>>)

\* The regular branch: the steps, the answer and the verification of the
\* float solution_val; sides are the two sides evaluated at it.
numeric_verified(v, lhs, rhs, coeff, const, solution_val, sides) ==
    IF ~sides[1].ok \/ ~sides[2].ok THEN Crash("TypeError")
    ELSE build_result("",
                      <<Step("Starting with the original equation", NoLin,
                             LinOf(lhs, v), LinOf(rhs, v)),
                        Step("Identify the coefficient and constant", NoLin,
                             Lin(RInt(coeff), RInt(const)), NoLin),
                        Step("Compute x = -(constant) / coefficient", NoLin,
                             NoLin, NoLin)>>,
                      Answer("solution", <<Decimal(fmt_num(solution_val))>>),
                      build_verification_numeric(sides[1].val, sides[2].val))
numeric_solved(v, lhs, rhs, coeff, const, solution_val) ==
    numeric_verified(v, lhs, rhs, coeff, const, solution_val,
                     [i \in {1, 2} |->
                         side_value(IF i = 1 THEN lhs ELSE rhs, Subs(v, solution_val))])

\* A solve_numeric that forgets to negate the constant: x = b / a.
numeric_isolate_unnegated(v, lhs, rhs, coeff, const) ==
    IF coeff = 0 THEN numeric_degenerate(v, lhs, rhs, const)
    ELSE numeric_solved(v, lhs, rhs, coeff, const,
                        FDiv(FFromInt(const), FFromInt(coeff)))
\* solve_numeric after the linearity check: coefficient and constant of
\* lhs - rhs, the degenerate branch, else x = -b / a in binary64.
numeric_isolate(v, lhs, rhs, coeff, const) ==
    IF coeff = 0 THEN numeric_degenerate(v, lhs, rhs, const)
    ELSE numeric_solved(v, lhs, rhs, coeff, const,
                        FDiv(FNeg(FFromInt(const)), FFromInt(coeff)))

\* solve_numeric, single equation and single variable, after the '=' checks.
solve_numeric_parsed(v, lhs, rhs, lin) ==
    IF lin.reason = "linear"
    THEN numeric_isolate(v, lhs, rhs, ExprSub(lhs, rhs)[v], ExprSub(lhs, rhs)["1"])
    ELSE IF lin.reason = "unknown" THEN InputError("Could not determine the degree", {})
    ELSE nonlinear_error_result(lhs, rhs, {v}, lin.degree, lin.reason)
solve_numeric_sides(v, lhs, rhs) ==
    solve_numeric_parsed(v, lhs, rhs, single_linearity(ExprSub(lhs, rhs), v))
solve_single_numeric(s) ==
    IF equation_shape_error(s) # "" THEN InputError(equation_shape_error(s), {})
    ELSE solve_numeric_sides(var_names(s)[1], parse_side(SplitOn(s, "eq")[1]),
                             parse_side(SplitOn(s, "eq")[2]))

\* ---------------------------------------------------------------- one equation, several variables
\* A value of the multi-variable and system answers: a free variable, or
\* q + k * (the other variable); For names the variable an entry is about.
Free == [form |-> "free", q |-> RZero, dec |-> NoDec]
Param(q, k) == [form |-> "param", q |-> q, dec |-> NoDec, k |-> k]
For(var, val) == [var |-> var, val |-> val]
OtherVar(v) == IF v = "x" THEN "y" ELSE "x"

\* _has_duplicate_vars: a variable letter occurs at least twice in a typed side.
has_duplicate_vars(toks, vs) ==
    \E v \in vs :
        Cardinality({i \in DOMAIN toks : toks[i].t = "term" /\ v \in LettersOf(toks[i].k)}) >= 2

\* solve(Eq(lhs, rhs), v) for an equation that passed the linearity check and
\* whose difference is a0 + ax*x + ay*y: no solution when v has cancelled.
solvable(combined, v) == combined[v] # 0
solve_for(combined, v) ==
    IF combined[OtherVar(v)] = 0 THEN Exact(Rat(-combined["1"], combined[v]))
    ELSE Param(Rat(-combined["1"], combined[v]),
               Rat(-combined[OtherVar(v)], combined[v]))

\* The linearity check of the multi-variable paths on lhs - rhs: the degree
\* and reason handed to _nonlinear_error_result, or reason "linear".
multi_linearity(combined, vset) ==
    IF has_transcendental(combined, vset) THEN Linearity(1, "transcendental")
    ELSE IF has_var_in_denominator(combined, vset) THEN Linearity(-1, "denominator")
    ELSE IF max_degree(combined, vset) > 1
         THEN Linearity(max_degree(combined, vset), "degree")
    ELSE Linearity(1, "linear")

\* The "Solve for v" steps, one per variable solve() has an answer for.
solve_for_steps(combined, vs) ==
    [i \in 1..Cardinality({j \in DOMAIN vs : solvable(combined, vs[j])}) |->
        Step("Solve for " \o (IF solvable(combined, vs[1]) /\ i = 1 THEN vs[1] ELSE vs[2]),
             NoLin, NoLin, NoLin)]

\* The verification of the multi-variable paths: the first variable's solution
\* is put back and the result announced as verified.
multi_verification(combined, vs, mode) ==
    IF solvable(combined, vs[1])
    THEN <<Check("Substitute " \o vs[1] \o (IF mode = "numerical" THEN " back" ELSE ""),
                 NoValue, NoValue, TRUE),
           Check("Solution verified", NoValue, NoValue, TRUE)>>
    ELSE <<>>

\* _solve_multi_var_single_eq after the linearity check: the final answer
\* lists the variables solve() has an answer for.
multi_var_trail(ltoks, rtoks, combined, vs, vset) ==
    Trail("Algebraic Isolation (Multi-Variable)",
          <<Note("Starting with the original equation")>>
              \o (IF has_duplicate_vars(ltoks, vset) \/ has_duplicate_vars(rtoks, vset)
                  THEN <<Note("Combine like terms")>> ELSE <<>>)
              \o solve_for_steps(combined, vs),
          Answer("multi",
                 [i \in 1..Cardinality({j \in DOMAIN vs : solvable(combined, vs[j])}) |->
                     IF solvable(combined, vs[1]) /\ i = 1
                     THEN For(vs[1], solve_for(combined, vs[1]))
                     ELSE For(vs[2], solve_for(combined, vs[2]))]),
          multi_verification(combined, vs, "symbolic"), "absent")

\* float(sol_expr) of a rational p/q, printed by _fmt_num.
decimal_of(q) == Decimal(fmt_num(FDiv(FFromInt(q[1]), FFromInt(q[2]))))

\* A value as _solve_multi_var_numeric prints it: a number as a decimal, an
\* expression in the other variable as it is.
shown_numeric(sol) == IF sol.form = "exact" THEN decimal_of(sol.q) ELSE sol

\* _solve_multi_var_numeric after the linearity check: no combine step;
\* numeric solutions are printed as decimals, the variables without a solution
\* are listed as free, and validation_status is the literal "pass".
multi_var_numeric_trail(combined, vs) ==
    Trail("Numerical Isolation (Multi-Variable)",
          <<Note("Starting with the original equation")>>
              \o solve_for_steps(combined, vs),
          Answer("multi",
                 [i \in DOMAIN vs |->
                     IF solvable(combined, vs[i])
                     THEN For(vs[i], shown_numeric(solve_for(combined, vs[i])))
                     ELSE For(vs[i], Free)]),
          multi_verification(combined, vs, "numerical"), "pass")

\* _solve_multi_var_single_eq and _solve_multi_var_numeric: the '=' checks,
\* the linearity check, then the trail of the mode.
solve_multi_var_parsed(ltoks, rtoks, lhs, rhs, vs, vset, lin, mode) ==
    IF lin.reason # "linear"
    THEN nonlinear_error_result(lhs, rhs, vset, lin.degree, lin.reason)
    ELSE IF mode = "numerical" THEN multi_var_numeric_trail(ExprSub(lhs, rhs), vs)
    ELSE multi_var_trail(ltoks, rtoks, ExprSub(lhs, rhs), vs, vset)
solve_multi_var_sides(ltoks, rtoks, lhs, rhs, vs, vset, mode) ==
    solve_multi_var_parsed(ltoks, rtoks, lhs, rhs, vs, vset,
                           multi_linearity(ExprSub(lhs, rhs), vset), mode)
solve_multi_var(s, mode) ==
    IF equation_shape_error(s) # "" THEN InputError(equation_shape_error(s), {})
    ELSE solve_multi_var_sides(SplitOn(s, "eq")[1], SplitOn(s, "eq")[2],
                               parse_side(SplitOn(s, "eq")[1]),
                               parse_side(SplitOn(s, "eq")[2]),
                               var_names(s), detect_variables(s), mode)
solve_multi_var_single_eq(s) == solve_multi_var(s, "symbolic")
solve_multi_var_numeric(s) == solve_multi_var(s, "numerical")

\* ---------------------------------------------------------------- systems, exact
\* Eq(expand(lhs), expand(rhs)) of one typed equation.  SymPy evaluates an Eq
\* whose two sides differ by a number to true or false (is_bool): such an
\* object has no lhs and no rhs.
EqObj(lhs, rhs) ==
    [lhs |-> lhs, rhs |-> rhs, is_bool |-> Support(ExprSub(lhs, rhs)) \subseteq {"1"}]
combined_of(eq) == ExprSub(eq.lhs, eq.rhs)

\* The parsing loop of _solve_system: "" when every equation has exactly one
\* '=' and two sides that parse, else the error of the first that has not.
RECURSIVE system_parse_error(_)
system_parse_error(raw) ==
    IF raw = <<>> THEN ""
    ELSE LET parts == SplitOn(Head(raw), "eq")
         IN  IF Len(parts) = 1 THEN "Each equation must contain '='"
             ELSE IF Len(parts) # 2 THEN "Each equation must have exactly one '='"
             ELSE IF parts[1] = <<>> \/ parts[2] = <<>>
                  THEN "Could not parse expression"
             ELSE system_parse_error(Tail(raw))
eq_objects_of(raw) ==
    [i \in DOMAIN raw |->
        EqObj(parse_side(SplitOn(raw[i], "eq")[1]), parse_side(SplitOn(raw[i], "eq")[2]))]

\* The linearity loop over the equations in input order, from equation i on:
\* reason "crash" when the loop reads .lhs of an evaluated Eq, the degree and
\* reason of the first non-linear equation (at tells which), or "linear".
At(lin, i) == [degree |-> lin.degree, reason |-> lin.reason, at |-> i]
first_nonlinear(lin, i, rest) == IF lin.reason # "linear" THEN At(lin, i) ELSE rest
RECURSIVE system_linearity(_, _, _)
system_linearity(eqs, vset, i) ==
    IF i > Len(eqs) THEN At(Linearity(1, "linear"), 0)
    ELSE IF eqs[i].is_bool THEN At(Linearity(0, "crash"), i)
    ELSE first_nonlinear(multi_linearity(combined_of(eqs[i]), vset), i,
                         system_linearity(eqs, vset, i + 1))

\* The row of a linear equation: coefficients of x and of y, right-hand constant.
Row(eq) ==
    [a |-> combined_of(eq)["x"], b |-> combined_of(eq)["y"], c |-> -combined_of(eq)["1"]]
Det(r1, r2) == r1.a * r2.b - r2.a * r1.b

\* solve(eq_objects, var_symbols, dict=True) for two linear equations: kind
\* "none" (the empty list), "unique", or "dependent" with the pivot variable
\* expressed in the free one.  vals is indexed like var_names.
solve_system_exact(r1, r2, vs) ==
    IF Det(r1, r2) # 0
    THEN [kind |-> "unique",
          vals |-> <<Exact(Rat(r1.c * r2.b - r2.c * r1.b, Det(r1, r2))),
                     Exact(Rat(r1.a * r2.c - r2.a * r1.c, Det(r1, r2)))>>]
    ELSE IF ~(r1.a * r2.c = r2.a * r1.c /\ r1.b * r2.c = r2.b * r1.c)
    THEN [kind |-> "none", vals |-> <<>>]
    ELSE IF Len(vs) = 1
    THEN [kind |-> "unique",
          vals |-> <<Exact(Rat(r1.c, IF vs[1] = "x" THEN r1.a ELSE r1.b))>>]
    ELSE IF r1.a # 0
    THEN [kind |-> "dependent",
          vals |-> <<(IF r1.b = 0 THEN Exact(Rat(r1.c, r1.a))
                      ELSE Param(Rat(r1.c, r1.a), Rat(-r1.b, r1.a))), Free>>]
    ELSE [kind |-> "dependent", vals |-> <<Free, Exact(Rat(r1.c, r1.b))>>]

\* A side of an equation at an exact solution (unique solutions only): xq and
\* yq are the values of x and y.
side_at_exact(e, xq, yq) ==
    RAdd(RAdd(RInt(e["1"]), RMul(RInt(e["x"]), xq)), RMul(RInt(e["y"]), yq))
side_exact(e, sol, vs) ==
    side_at_exact(e, IF vs[1] = "x" THEN sol[1].q ELSE RZero,
                  IF vs[1] = "y" THEN sol[1].q
                  ELSE IF Len(vs) = 2 THEN sol[2].q ELSE RZero)

\* The inconsistent branch: equation (1) is subtracted from equation (2).
inconsistent_trail(diff_lhs, diff_rhs) ==
    Trail("Elimination Method (Inconsistent System)",
          <<Note("System of equations"),
            Note("Subtract equation (1) from equation (2)"),
            Step("Simplify both sides", NoLin, diff_lhs, diff_rhs),
            Step("Contradiction - No Solution", NoLin, diff_lhs, diff_rhs)>>,
          Answer("inconsistent", <<>>), <<>>, "absent")

\* The steps after "System of equations": the substitution narration of a
\* 2 x 2 system without free variables (when equation (1) can be solved for
\* the first variable), else the solution step, after the parametric one when
\* there are free variables.
narration(r1, sol, vs) ==
    IF Len(vs) = 2 /\ sol.kind = "unique"
    THEN IF r1.a # 0
         THEN <<Note("From equation (1), isolate " \o vs[1]),
                Note("Substitute into equation (2)"),
                Note("Solve for " \o vs[2]),
                Note("Back-substitute to find " \o vs[1])>>
         ELSE <<Note("Solution")>>
    ELSE IF sol.kind = "dependent"
         THEN <<Note("Parametric solution"), Note("Solution")>>
    ELSE <<Note("Solution")>>

\* The verification of _solve_system: one step per equation between a first
\* and a last step; the last step announces success whatever the others say.
equation_check(l, r) == Check("Equation", Exact(l), Exact(r), l = r)
system_verification(eqs, sol, vs) ==
    <<Check("Substitute into every equation", NoValue, NoValue, TRUE)>>
    \o [i \in DOMAIN eqs |->
           IF sol.kind = "unique"
           THEN equation_check(side_exact(eqs[i].lhs, sol.vals, vs),
                               side_exact(eqs[i].rhs, sol.vals, vs))
           ELSE Check("Equation", NoValue, NoValue, TRUE)]
    \o <<Check("All equations verified", NoValue, NoValue, TRUE)>>

\* _solve_system from the solve() call on.
system_solved(eqs, vs, r1, sol) ==
    IF sol.kind = "none"
    THEN inconsistent_trail(ExprSub(eqs[2].lhs, eqs[1].lhs),
                            ExprSub(eqs[2].rhs, eqs[1].rhs))
    ELSE Trail(IF Len(vs) = 2 THEN "Substitution Method" ELSE "Linear System Solver",
               <<Note("System of equations")>> \o narration(r1, sol, vs),
               Answer(sol.kind, [i \in DOMAIN vs |-> For(vs[i], sol.vals[i])]),
               system_verification(eqs, sol, vs), "absent")
system_exact(eqs, vs) ==
    system_solved(eqs, vs, Row(eqs[1]),
                  solve_system_exact(Row(eqs[1]), Row(eqs[2]), vs))

\* ---------------------------------------------------------------- systems, numeric
\* LAPACK getrf on a 2 x 2 matrix, partial pivoting: the pivot row p is the
\* first of largest |a|, o the other row; l is the multiplier, u22 the second
\* pivot.
LUWith(p, o, swap, l) ==
    [swap |-> swap, p |-> p, o |-> o, l |-> l,
     u22 |-> FSub(FFromInt(o.b), FMul(l, FFromInt(p.b)))]
LUOf(p, o, swap) ==
    LUWith(p, o, swap,
           IF p.a = 0 THEN FZero ELSE FDiv(FFromInt(o.a), FFromInt(p.a)))
LU(r1, r2) ==
    LUOf(IF Abs(r2.a) > Abs(r1.a) THEN r2 ELSE r1,
         IF Abs(r2.a) > Abs(r1.a) THEN r1 ELSE r2,
         Abs(r2.a) > Abs(r1.a))
\* numpy.linalg.det from the factorisation f: the signed product of the pivots.
signed(swap, d) == IF swap THEN FNeg(d) ELSE d
linalg_det(f) == signed(f.swap, FMul(FFromInt(f.p.a), f.u22))
\* numpy.linalg.solve from the factorisation f: LinAlgError (ok = FALSE) on a
\* zero pivot, else forward and back substitution.
back_substitution(f, y) ==
    <<FDiv(FSub(FFromInt(f.p.c), FMul(FFromInt(f.p.b), y)), FFromInt(f.p.a)), y>>
linalg_solve(f) ==
    IF f.p.a = 0 \/ f.u22.s = 0 THEN [ok |-> FALSE, x |-> <<>>]
    ELSE [ok |-> TRUE,
          x |-> back_substitution(
                    f, FDiv(FSub(FFromInt(f.o.c), FMul(f.l, FFromInt(f.p.c))), f.u22))]
\* numpy.linalg.lstsq for two equations in the one unknown with coefficients
\* a1, a2: the least-squares solution (a1 c1 + a2 c2) / (a1^2 + a2^2).  The
\* SVD routine's last bits are not modelled: the value is the correctly rounded
\* quotient, which _fmt_num and the 1e-10 tolerance cannot tell apart from it.
linalg_lstsq(a1, c1, a2, c2) ==
    <<FDiv(FFromInt(a1 * c1 + a2 * c2), FFromInt(a1 * a1 + a2 * a2))>>

\* sub_dict: the solution vector x against var_names.
sub_dict(vs, x) ==
    [x |-> IF vs[1] = "x" THEN x[1] ELSE FZero,
     y |-> IF vs[1] = "y" THEN x[1] ELSE IF Len(vs) = 2 THEN x[2] ELSE FZero]

\* The singular branch: det(A) is essentially zero and SymPy finds no solution.
singular_trail ==
    Trail("NumPy Linear Algebra (Singular)",
          <<Note("System of equations"),
            Note("Build coefficient matrix and constant vector"),
            Note("Singular matrix - No solution")>>,
          Answer("singular", <<>>), <<>>, "pass")

\* The verification of _solve_system_numeric; sides[2i - 1] and sides[2i] are
\* the two sides of equation i at the solution, shown their printed values.
\* A step compares its two floats under the tolerance 1e-10; the last step
\* announces success whatever the others say.
system_verification_numeric(n, sides, shown) ==
    <<Check("Substitute into every equation", NoValue, NoValue, TRUE)>>
    \o [i \in 1..n |->
           Check("Equation", shown[2 * i - 1], shown[2 * i],
                 within_tolerance(sides[2 * i - 1].val, sides[2 * i].val))]
    \o <<Check("All equations verified", NoValue, NoValue, TRUE)>>

\* _solve_system_numeric from the solution vector x on.  float() of a side
\* with a pole raises inside the try block and leaves as ValueError.
system_numeric_trail(eqs, vs, x, sides) ==
    IF \E k \in DOMAIN sides : ~sides[k].ok
    THEN InputError("Could not solve system numerically", {})
    ELSE Trail("NumPy Linear Algebra (numpy.linalg.solve)",
               <<Note("System of equations"),
                 Note("Build coefficient matrix and constant vector"),
                 IF Len(vs) = Len(eqs) THEN Note("Solve Ax = b using NumPy")
                 ELSE Note("Solve using least-squares (numpy.linalg.lstsq)")>>
                   \o [i \in DOMAIN vs |-> Step("Value of " \o vs[i], NoLin, NoLin, NoLin)],
               Answer("unique", [i \in DOMAIN vs |-> For(vs[i], Decimal(fmt_num(x[i])))]),
               system_verification_numeric(
                   Len(eqs), sides,
                   [k \in DOMAIN sides |-> Decimal(fmt_num(sides[k].val))]),
               "pass")
\* LinAlgError is re-raised by the except clause as ValueError.
system_numeric_solved(eqs, vs, res) ==
    IF ~res.ok THEN InputError("Could not solve system numerically", {})
    ELSE system_numeric_trail(
             eqs, vs, res.x,
             [k \in 1..(2 * Len(eqs)) |->
                 side_value(IF k % 2 = 1 THEN eqs[(k + 1) \div 2].lhs
                            ELSE eqs[k \div 2].rhs,
                            sub_dict(vs, res.x))])
\* The solve of a square system (numpy.linalg.solve) or of an over-determined
\* one (numpy.linalg.lstsq).
numeric_solution(r1, r2, vs, f) ==
    IF Len(vs) = 2 THEN linalg_solve(f)
    ELSE [ok |-> TRUE,
          x |-> linalg_lstsq(IF vs[1] = "x" THEN r1.a ELSE r1.b, r1.c,
                             IF vs[1] = "x" THEN r2.a ELSE r2.b, r2.c)]
\* _solve_system_numeric from the matrix on: a square system whose
\* determinant is below 1e-14 in absolute value is handed to SymPy, and is
\* reported singular when that finds no solution.
system_numeric_from(eqs, vs, r1, r2, f) ==
    IF /\ Len(vs) = 2
       /\ FLess(FAbs(linalg_det(f)), Tol14)
       /\ solve_system_exact(r1, r2, vs).kind = "none"
    THEN singular_trail
    ELSE system_numeric_solved(eqs, vs, numeric_solution(r1, r2, vs, f))
system_numeric(eqs, vs) ==
    system_numeric_from(eqs, vs, Row(eqs[1]), Row(eqs[2]), LU(Row(eqs[1]), Row(eqs[2])))

\* _solve_system and _solve_system_numeric: the parsing loop, the linearity
\* loop, then the solve of the mode.
system_checked(eqs, vs, lin, mode) ==
    IF lin.reason = "crash" THEN Crash("AttributeError")
    ELSE IF lin.reason # "linear"
    THEN nonlinear_error_result(eqs[lin.at].lhs, eqs[lin.at].rhs,
                                {vs[i] : i \in DOMAIN vs}, lin.degree, lin.reason)
    ELSE IF mode = "numerical" THEN system_numeric(eqs, vs)
    ELSE system_exact(eqs, vs)
system_parsed(eqs, vs, mode) ==
    system_checked(eqs, vs, system_linearity(eqs, {vs[i] : i \in DOMAIN vs}, 1), mode)
solve_system_in(raw, vs, mode) ==
    IF system_parse_error(raw) # "" THEN InputError(system_parse_error(raw), {})
    ELSE system_parsed(eq_objects_of(raw), vs, mode)
solve_system(raw, vs) == solve_system_in(raw, vs, "symbolic")
solve_system_numeric(raw, vs) == solve_system_in(raw, vs, "numerical")

\* ---------------------------------------------------------------- entry points
\* solve_linear_equation: normalise, validate the characters, split into
\* equations, detect the variables, dispatch on the shape.
solve_linear_equation(equation_str) ==
    LET s == Normalise(equation_str)
        bad == validate_characters(s)
        raw == raw_equations(s)
        vs == var_names(s)
    IN  IF bad # {} THEN InputError("Invalid character(s)", bad)
        ELSE IF vs = <<>> THEN InputError("No variable found", {})
        ELSE IF Len(raw) > 1 THEN solve_system(raw, vs)
        ELSE IF Len(vs) > 1 THEN solve_multi_var_single_eq(s)
        ELSE solve_single_symbolic(s)

\* solve_numeric: the same front end, the numeric paths.
solve_numeric(equation_str) ==
    LET s == Normalise(equation_str)
        bad == validate_characters(s)
        raw == raw_equations(s)
        vs == var_names(s)
    IN  IF bad # {} THEN InputError("Invalid character(s)", bad)
        ELSE IF vs = <<>> THEN InputError("No variable found", {})
        ELSE IF Len(raw) > 1 THEN solve_system_numeric(raw, vs)
        ELSE IF Len(vs) > 1 THEN solve_multi_var_numeric(s)
        ELSE solve_single_numeric(s)

\* Whether the last verification step of a trail reports equal sides.
final_comparison_holds(t) ==
    t.verification_steps # <<>> /\ t.verification_steps[Len(t.verification_steps)].ok

\* The package-level solve(equation_text, mode): it calls the engine of the
\* mode and tags a Trail whose summary has no validation_status: "pass" when
\* the verification's final comparison holds, "fail" otherwise.  A status set
\* by the engine itself is kept.
tagged(t) ==
    IF t.kind = "trail" /\ t.validation_status = "absent"
    THEN [t EXCEPT !.validation_status =
                       IF final_comparison_holds(t) THEN "pass" ELSE "fail"]
    ELSE t
solve(equation_text, mode) ==
    tagged(IF mode = "numerical" THEN solve_numeric(equation_text)
           ELSE solve_linear_equation(equation_text))

\* ---------------------------------------------------------------- substitution
\* One assignment of the values text, "name = val": has_eq is FALSE when the
\* '=' is missing.
Assign(name, val) == [name |-> name, has_eq |-> TRUE, val |-> val]

\* _parse_values: "" or the error of the first malformed assignment; the empty
\* text has no values.
RECURSIVE parse_values_error(_)
parse_values_error(vals) ==
    IF vals = <<>> THEN ""
    ELSE IF ~Head(vals).has_eq THEN "Invalid value format"
    ELSE parse_values_error(Tail(vals))
user_values(vals) == {vals[i].name : i \in DOMAIN vals}
\* The dict keeps the last value given for a name.
value_of(vals, name) ==
    LET last == SetMax({i \in DOMAIN vals : vals[i].name = name}) IN vals[last].val

\* A polynomial side at integer values of x and y.
side_at(e, vals) ==
    LET xv == IF "x" \in user_values(vals) THEN value_of(vals, "x") ELSE 0
        yv == IF "y" \in user_values(vals) THEN value_of(vals, "y") ELSE 0
    IN  e["1"] + e["x"] * xv + e["y"] * yv + e["x^2"] * xv * xv + e["xy"] * xv * yv

\* A result as the compute mode prints it.
shown_result(n, compute_mode) ==
    IF compute_mode = "numerical" THEN Decimal(fmt_num(FFromInt(n))) ELSE Exact(RInt(n))

\* The five steps and the verdict; validation_status is "pass" exactly when
\* the difference of the two evaluated sides is 0.  shown holds the printed
\* left side, right side and difference.
substitution_trail(equation_value, shown) ==
    Trail("Substitution Check",
          <<Note("Starting with the original equation"),
            Note("Given values to substitute"),
            Note("Substitute into the equation"),
            Step("Evaluate the equation", NoLin, shown[1], NoValue),
            Step("Get the value of the equation", NoLin, shown[1], shown[2])>>,
          Answer(IF equation_value = 0 THEN "equal" ELSE "not equal", <<shown[3]>>),
          <<>>, IF equation_value = 0 THEN "pass" ELSE "fail")
substitution_results(lhs_result, rhs_result, compute_mode) ==
    substitution_trail(lhs_result - rhs_result,
                       [k \in 1..3 |->
                           shown_result(<<lhs_result, rhs_result,
                                          lhs_result - rhs_result>>[k], compute_mode)])

\* solve_substitution: the checks in the order of the code, then the
\* evaluation.  Both compute modes evaluate integers exactly.  subs_dict looks
\* every given name up in var_symbols, which holds the variables of the
\* equation alone: a value for another letter raises KeyError.
solve_substitution(equation_str, vals, compute_mode) ==
    LET s == Normalise(equation_str)
        bad == validate_characters(s)
        parts == SplitOn(s, "eq")
        missing == detect_variables(s) \ user_values(vals)
    IN  IF bad # {} THEN InputError("Invalid character(s)", bad)
        ELSE IF Len(parts) = 1 THEN InputError("Equation must contain '='", {})
        ELSE IF parse_values_error(vals) # "" THEN InputError(parse_values_error(vals), {})
        ELSE IF vals = <<>> THEN InputError("No values provided", {})
        ELSE IF detect_variables(s) = {} THEN InputError("No variable found", {})
        ELSE IF missing # {} THEN InputError("Missing value(s) for variable(s)", missing)
        ELSE IF Len(parts) # 2 THEN InputError("exactly one '=' sign", {})
        ELSE IF parts[1] = <<>> \/ parts[2] = <<>>
             THEN InputError("Both sides must have expressions", {})
        ELSE IF user_values(vals) \ detect_variables(s) # {} THEN Crash("KeyError")
        ELSE substitution_results(side_at(parse_side(parts[1]), vals),
                                  side_at(parse_side(parts[2]), vals), compute_mode)

\* ---------------------------------------------------------------- display strings
\* A display string is the sequence of its characters.  "[" and "]" stand for
\* the fraction-marker brackets U+27E6 and U+27E7, ":" for the division sign.
DigitChars == <<"0", "1", "2", "3", "4", "5", "6", "7", "8", "9">>
Digits == {DigitChars[i] : i \in DOMAIN DigitChars}
Alnum == Digits \cup {"x"}
\* str() of a natural number.
RECURSIVE numeral(_)
numeral(n) ==
    IF n < 10 THEN <<DigitChars[n + 1]>>
    ELSE Append(numeral(n \div 10), DigitChars[(n % 10) + 1])
\* str() of a SymPy Rational: "p" or "p/q".
str_of_number(q) ==
    (IF q[1] < 0 THEN <<"-">> ELSE <<>>) \o numeral(Abs(q[1]))
    \o (IF q[2] = 1 THEN <<>> ELSE <<"/">> \o numeral(q[2]))
\* str() of c*x for a Rational c # 0: "x", "-x", "p*x", "x/q", "-x/q", "p*x/q".
str_of_term(c) ==
    (IF c[1] < 0 THEN <<"-">> ELSE <<>>)
    \o (IF Abs(c[1]) = 1 THEN <<>> ELSE numeral(Abs(c[1])) \o <<"*">>)
    \o <<"x">>
    \o (IF c[2] = 1 THEN <<>> ELSE <<"/">> \o numeral(c[2]))
\* _frac: the marker of a stacked fraction.
frac(num, den) == <<"[">> \o num \o <<"|">> \o den \o <<"]">>
\* _format_expr, re.sub(r'(\d)\*([A-Za-z])', r'\1\2'): 2*x becomes 2x.
RECURSIVE drop_star(_)
drop_star(s) ==
    IF Len(s) < 3 THEN s
    ELSE IF s[1] \in Digits /\ s[2] = "*" /\ s[3] = "x"
    THEN <<s[1]>> \o drop_star(SubSeq(s, 3, Len(s)))
    ELSE <<s[1]>> \o drop_star(Tail(s))
\* _format_expr, re.sub(r'(-?[A-Za-z0-9]+)/(\d+)', _frac): every token/number
\* becomes a marker, matched from the left.
RECURSIVE simple_frac(_)
simple_frac(s) ==
    LET slashes == {i \in 2 .. Len(s) - 1 :
                        s[i] = "/" /\ s[i - 1] \in Alnum /\ s[i + 1] \in Digits}
    IN  IF slashes = {} THEN s
        ELSE LET i == CHOOSE m \in slashes : \A n \in slashes : m <= n
                 j == CHOOSE m \in 1 .. i - 1 :
                          /\ \A n \in m .. i - 1 : s[n] \in Alnum
                          /\ m = 1 \/ s[m - 1] \notin Alnum
                 from == IF j > 1 /\ s[j - 1] = "-" THEN j - 1 ELSE j
                 to == CHOOSE m \in i + 1 .. Len(s) :
                          /\ \A n \in i + 1 .. m : s[n] \in Digits
                          /\ m = Len(s) \/ s[m + 1] \notin Digits
             IN  SubSeq(s, 1, from - 1)
                 \o frac(SubSeq(s, from, i - 1), SubSeq(s, i + 1, to))
                 \o simple_frac(SubSeq(s, to + 1, Len(s)))
\* _format_expr of a number or of a multiple of the variable.
format_expr(s) == simple_frac(drop_star(s))
\* _FRAC_OPEN in s
has_marker(s) == \E i \in DOMAIN s : s[i] = "["

\* The coefficient check of solve_linear_equation for coeff*x = rhs with
\* coeff # 0: the expression of the "Divide both sides" step (none when the
\* coefficient is 1), the expression of "Simplify to get the answer", and the
\* final answer.
NoWork == [coeff |-> RInt(1), rhs |-> RZero]
NotShown == [kind |-> "pending", divide_expr |-> <<>>, final_answer |-> <<>>]
divide_expr_of(coeff_str_expr, lhs_str_fmt, rhs_str_fmt) ==
    IF has_marker(coeff_str_expr)
    THEN lhs_str_fmt \o <<" ", ":", " ">> \o coeff_str_expr \o <<" ", "=", " ">>
         \o rhs_str_fmt \o <<" ", ":", " ">> \o coeff_str_expr
    ELSE frac(lhs_str_fmt, coeff_str_expr) \o <<" ", "=", " ">>
         \o frac(rhs_str_fmt, coeff_str_expr)
coefficient_check(coeff, rhs) ==
    [kind |-> "shown",
     divide_expr |->
        IF coeff # RInt(1)
        THEN divide_expr_of(format_expr(str_of_number(coeff)),
                            format_expr(str_of_term(coeff)),
                            format_expr(str_of_number(rhs)))
        ELSE <<>>,
     final_answer |->
        <<"x", " ", "=", " ">>
        \o format_expr(str_of_number(IF coeff # RInt(1) THEN RDiv(rhs, coeff) ELSE rhs))]

\* ---------------------------------------------------------------- history store
\* gui/storage.py.  A user name is the sequence of its characters; a history
\* record is identified by its epoch (equation, answer and timestamp are
\* stored with it and never changed).
HistoryLimit == 100
\* _load_db() without a data file: no users.
NoUsers == <<>>
Record(epoch) == [epoch |-> epoch]
FirstN(h, n) == SubSeq(h, 1, IF Len(h) < n THEN Len(h) ELSE n)
\* register_user for a password of four or more characters.
register_user(d, username) ==
    IF Len(username) < 3 \/ username \in DOMAIN d THEN d
    ELSE [u \in DOMAIN d \cup {username} |->
             IF u = username THEN [history |-> <<>>] ELSE d[u]]
\* add_history: insert(0, record), then keep the first HistoryLimit entries.
add_history(d, username, record) ==
    IF username \notin DOMAIN d THEN d
    ELSE [d EXCEPT ![username].history = FirstN(<<record>> \o @, HistoryLimit)]
get_history(d, username) ==
    IF username \notin DOMAIN d THEN <<>> ELSE d[username].history
clear_history(d, username) ==
    IF username \notin DOMAIN d THEN d ELSE [d EXCEPT ![username].history = <<>>]

\* ---------------------------------------------------------------- alphabetic runs
\* A raw string is a sequence of characters.  _ALLOWED_VARS in sorted() order:
\* the capitals come before the small letters.
LetterOrder ==
    <<"A", "B", "C", "D", "E", "F", "G", "H", "I", "J", "K", "L", "M",
      "N", "O", "P", "Q", "R", "S", "T", "U", "V", "W", "X", "Y", "Z",
      "a", "b", "c", "d", "e", "f", "g", "h", "i", "j", "k", "l", "m",
      "n", "o", "p", "q", "r", "s", "t", "u", "v", "w", "x", "y", "z">>
ALLOWED_VARS == {LetterOrder[i] : i \in DOMAIN LetterOrder}
\* _RESERVED of _detect_variables.
RESERVED ==
    {<<"s", "i", "n">>, <<"c", "o", "s">>, <<"t", "a", "n">>, <<"l", "o", "g">>,
     <<"l", "n">>, <<"e", "x", "p">>, <<"s", "q", "r", "t">>,
     <<"p", "i">>, <<"P", "I">>, <<"P", "i">>, <<"a", "b", "s">>, <<"E">>}

\* The length of the match of [A-Za-z]+ that starts at position i of s.
RECURSIVE run_length(_, _)
run_length(s, i) ==
    IF i > Len(s) \/ s[i] \notin ALLOWED_VARS THEN 0 ELSE 1 + run_length(s, i + 1)
\* re.findall(r'[A-Za-z]+', s) from position i on.
RECURSIVE findall_from(_, _)
findall_from(s, i) ==
    IF i > Len(s) THEN <<>>
    ELSE IF run_length(s, i) = 0 THEN findall_from(s, i + 1)
    ELSE <<SubSeq(s, i, i + run_length(s, i) - 1)>>
             \o findall_from(s, i + run_length(s, i))
findall(s) == findall_from(s, 1)

\* The candidates of _detect_variables: the letters of the tokens that are
\* not in _RESERVED.
candidates(tokens) ==
    UNION {{tokens[k][j] : j \in DOMAIN tokens[k]} :
               k \in {n \in DOMAIN tokens : tokens[n] \notin RESERVED}}
\* _detect_variables on a raw string: sorted(candidates), or the ValueError
\* "No variable found".
NotLexed == [kind |-> "pending", error |-> "", variables |-> <<>>, expanded |-> <<>>]
detected_from(c) ==
    IF c = {} THEN [NotLexed EXCEPT !.kind = "raised", !.error = "No variable found"]
    ELSE [NotLexed EXCEPT !.kind = "detected",
                          !.variables = SelectSeq(LetterOrder, LAMBDA ch : ch \in c)]
detect_variables_in(s) == detected_from(candidates(findall(s)))

\* '*'.join(tok)
star_join(tok) ==
    [k \in 1..(2 * Len(tok) - 1) |-> IF k % 2 = 1 THEN tok[(k + 1) \div 2] ELSE "*"]
\* _repl: a token is expanded when every letter of it is a known variable.
repl(tok, names) ==
    IF \A j \in DOMAIN tok : tok[j] \in names THEN star_join(tok) ELSE tok
\* re.sub(r'[A-Za-z]+', _repl, s) from position i on.
RECURSIVE sub_from(_, _, _)
sub_from(s, i, names) ==
    IF i > Len(s) THEN <<>>
    ELSE IF run_length(s, i) = 0 THEN <<s[i]>> \o sub_from(s, i + 1, names)
    ELSE repl(SubSeq(s, i, i + run_length(s, i) - 1), names)
             \o sub_from(s, i + run_length(s, i), names)
\* _expand_implicit_vars(s, var_names)
expand_implicit_vars(s, names) == sub_from(s, 1, names)

\* ---------------------------------------------------------------- graph analysis
\* _parse_eq raises unless the piece has exactly one '=' with an expression on
\* either side.
parse_eq_raises(piece) ==
    \/ Cardinality({i \in DOMAIN piece : piece[i].t = "eq"}) # 1
    \/ SplitOn(piece, "eq")[1] = <<>>
    \/ SplitOn(piece, "eq")[2] = <<>>
\* The coefficients _analyze_system reads off lhs - rhs of a piece for the
\* variable names xn and yn.
coefficients(e, xn, yn) == [a |-> e[xn], b |-> e[yn], c |-> -e["1"]]
coefficients_of(piece, xn, yn) ==
    coefficients(ExprSub(parse_side(SplitOn(piece, "eq")[1]),
                         parse_side(SplitOn(piece, "eq")[2])), xn, yn)
\* The case from the determinant and, when it is zero, from the ratios.
case_of(r1, r2) ==
    IF r1.a * r2.b - r2.a * r1.b # 0 THEN "one_solution"
    ELSE IF r1.a * r2.c = r2.a * r1.c /\ r1.b * r2.c = r2.b * r1.c THEN "infinite"
    ELSE "no_solution"
\* The except branch: the case is read off the final answer text.  Of the
\* final answers of the system solvers only the inconsistent one holds "no
\* solution"; none holds "Cannot" or "infinite".
case_from_text(final) ==
    IF final.tag = "inconsistent" THEN "no_solution" ELSE "one_solution"
NotAnalysed == [m \in Modes |-> [kind |-> "pending", case |-> ""]]
Analysed(case) == [kind |-> "analysed", case |-> case]
\* _analyze_system(inputs, final): eqs_str is inputs["equations"], the text as
\* typed, split on the separators with the empty pieces kept; vs is
\* inputs["variables"].
analyze_pieces(eq_parts, xn, yn, final) ==
    IF Len(eq_parts) < 2 THEN [kind |-> "none", case |-> ""]
    ELSE IF parse_eq_raises(eq_parts[1]) \/ parse_eq_raises(eq_parts[2])
    THEN Analysed(case_from_text(final))
    ELSE Analysed(case_of(coefficients_of(eq_parts[1], xn, yn),
                          coefficients_of(eq_parts[2], xn, yn)))
analyze_system(eqs_str, vs, final) ==
    analyze_pieces(SplitOn(eqs_str, "sep"),
                   IF Len(vs) > 0 THEN vs[1] ELSE "x",
                   IF Len(vs) > 1 THEN vs[2] ELSE "y", final)
\* The results whose given inputs hold "equations": the trails of the two
\* system solvers, the nonlinear ones apart.
SystemResults ==
    {"Substitution Method", "Linear System Solver",
     "Elimination Method (Inconsistent System)",
     "NumPy Linear Algebra (numpy.linalg.solve)", "NumPy Linear Algebra (Singular)"}

\* ---------------------------------------------------------------- the window
\* gui/app.py with the animated settings (_TYPING_SPEED and _PHASE_PAUSE not
\* zero, their defaults): the Stop button is shown while the input is disabled.
\*
\* A callback handed to after(): kind says what it calls, gen is the
\* generation it compares _solve_gen with before doing anything (guarded
\* FALSE: it compares nothing), owner the solve whose result it animates, item
\* the queue item it works on, idx the line it is at, marked whether the final
\* answer of the result holds fraction markers.
Timer(kind, gen, guarded, owner, item, idx, marked) ==
    [kind |-> kind, gen |-> gen, guarded |-> guarded, owner |-> owner,
     item |-> item, idx |-> idx, marked |-> marked]
\* What the last callback did: nothing, drew into the chat, or ran an item of
\* the animation queue; stale says its solve was superseded when it ran.
Event(owner, stale, effect) == [owner |-> owner, stale |-> stale, effect |-> effect]
NoEvent == Event(0, FALSE, "none")
Unsent == [state |-> "unsent", gen |-> 0, loading |-> FALSE, frame |-> FALSE]
NoQueue == [owner |-> 0, items |-> <<>>, marked |-> FALSE]
\* The queue _show_result builds, its sections with typed text standing as
\* one "step": typed sections, the final answer, _finish.
QueueItems == <<"step", "answer", "finish">>
\* The lines of a final answer that holds fraction markers (x = ..., y = ...).
AnswerLines == <<"x", "y">>
WindowIdle ==
    /\ solve_gen = 0 /\ input_enabled = TRUE
    /\ solves = [n \in 1..MaxSends |-> Unsent]
    /\ timers = {} /\ anim_queue = NoQueue /\ anim_idx = 0
    /\ fired = NoEvent

\* What a callback leaves behind: the timers it scheduled, the queue index,
\* the input state, the solves and the event.
Outcome(new, i, enabled, ss, effect) ==
    [new |-> new, idx |-> i, enabled |-> enabled, solves |-> ss, effect |-> effect]
\* _advance_queue called by a callback of solve caller: the next item of the
\* queue, if there is one, shows its status line and waits _PHASE_PAUSE
\* (_phase_then), or is _finish and re-enables the input.
advance_queue(q, i, enabled, ss, gen) ==
    IF i >= Len(q.items) THEN Outcome({}, i, enabled, ss, "none")
    ELSE IF q.items[i + 1] = "finish" THEN Outcome({}, i + 1, TRUE, ss, "advance")
    ELSE Outcome({Timer("phase", gen, TRUE, q.owner, q.items[i + 1], 0, q.marked)},
                 i + 1, enabled, ss, "advance")
\* _schedule_next: _go compares the generation read when it is scheduled.
schedule_next(tm, gen) == Timer("next", gen, TRUE, tm.owner, tm.item, 0, tm.marked)
\* _type_chars: the callback of the next character compares the generation
\* read when it is scheduled.
type_chars(tm, gen) == Timer("type", gen, TRUE, tm.owner, tm.item, 0, tm.marked)
\* _type_answer_lines after a line with fraction markers: after(30, ...) with
\* no comparison at all.
next_line(tm) == Timer("line", 0, FALSE, tm.owner, tm.item, tm.idx + 1, tm.marked)

\* The callback tm runs (its comparison, if it makes one, has passed).
run_callback(tm, q, i, enabled, ss, gen) ==
    IF tm.kind = "error"
    THEN \* _show_error
         Outcome({}, i, TRUE, [ss EXCEPT ![tm.owner].loading = FALSE], "render")
    ELSE IF tm.kind = "phase"
    THEN \* _animate_step and its like type their text; _animate_answer hands
         \* the lines to _type_answer_lines
         IF tm.item = "answer" /\ tm.marked
         THEN Outcome({next_line(tm)}, i, enabled, ss, "render")
         ELSE Outcome({type_chars(tm, gen)}, i, enabled, ss, "render")
    ELSE IF tm.kind = "type"
    THEN \* the text is typed: the section ends with _schedule_next
         Outcome({schedule_next(tm, gen)}, i, enabled, ss, "none")
    ELSE IF tm.kind = "line"
    THEN \* _type_answer_lines(idx): a further line is drawn into the frame (a
         \* destroyed frame raises TclError and ends the chain), after the
         \* last one _schedule_next
         IF tm.idx < Len(AnswerLines)
         THEN IF ss[tm.owner].frame
              THEN Outcome({next_line(tm)}, i, enabled, ss, "render")
              ELSE Outcome({}, i, enabled, ss, "none")
         ELSE Outcome({schedule_next(tm, gen)}, i, enabled, ss, "none")
    ELSE \* "next": _go of _schedule_next
         advance_queue(q, i, enabled, ss, gen)
\* _show_result: the label goes, the frame and the queue are built and the
\* first item is run.
show_result(tm, enabled, ss, gen) ==
    [advance_queue([owner |-> tm.owner, items |-> QueueItems, marked |-> tm.marked],
                   0, enabled,
                   [ss EXCEPT ![tm.owner].loading = FALSE, ![tm.owner].frame = TRUE],
                   gen)
        EXCEPT !.effect = "render"]

\* ---------------------------------------------------------------- inputs
Coefs == -MaxCoef .. MaxCoef
SysCoefs == -MaxSysCoef .. MaxSysCoef
Bit == {0, 1}

\* A typed side; a side none of whose terms is there is typed as "0".
Side(ts) == IF ts = <<>> THEN <<Tok("term", 0, "1")>> ELSE ts
Equation(l, r) == l \o <<EqTok>> \o r
Linear2(a, b, c) == Equation(Side(Term(a, "x") \o Term(b, "y")), Side(Term(c, "1")))

\* a*x + b = c*x + d
LinearTexts ==
    {Equation(Side(Term(a, "x") \o Term(b, "1")), Side(Term(c, "x") \o Term(d, "1"))) :
        a \in Coefs, b \in Coefs, c \in Coefs, d \in Coefs}
\* a*y + b = d, and sides that repeat the variable: a*x + b*x + c = d
OtherLinearTexts ==
    {Equation(Term(a, "y") \o Term(b, "1"), Side(Term(d, "1"))) :
        a \in {1, 2}, b \in Bit, d \in Bit}
    \cup {Equation(Term(a, "x") \o Term(b, "x") \o Term(c, "1"), Side(Term(d, "1"))) :
        a \in {-1, 1}, b \in {-1, 1}, c \in Bit, d \in Bit}
\* 7x = 917505
BigText == Equation(Term(7, "x"), Term(917505, "1"))

\* One variable and non-linear atoms: e*k1 + g*k2 + a*x = f*k1 + d.  An atom
\* that cancels (e = f) leaves a linear equation whose sides are evaluated in
\* floating point; that is modelled for x^2 and 1/x alone.
Atoms == {"x^2", "1/x", "sin(x)", "sqrt(x)", "U221A(x)"}
NonlinearTexts ==
    {Equation(Term(q[1], q[2]) \o Term(q[3], q[4]) \o Term(q[5], "x"),
              Side(Term(q[6], q[2]) \o Term(q[7], "1"))) :
        q \in {r \in {1, 2} \X Atoms \X Bit \X Atoms \X Bit \X Bit \X Bit :
                  /\ r[2] # r[4]
                  /\ r[6] = 1 => (r[3] = 0 /\ (r[1] = 2 \/ r[2] \in {"x^2", "1/x"}))
                  /\ r[3] = 1 => r[7] = 0}}

\* One equation in x and y: a*x + b*y = d*x + c, a repeated variable, and
\* non-linear atoms beside y.
MultiAtoms == {"xy", "x^2", "1/x", "sin(x)"}
MultiTexts ==
    {Equation(Side(Term(a, "x") \o Term(b, "y")), Side(Term(d, "x") \o Term(c, "1"))) :
        a \in SysCoefs, b \in SysCoefs, d \in SysCoefs, c \in SysCoefs}
    \cup {Equation(Term(1, "x") \o Term(a, "x") \o Term(1, "y"), Side(Term(c, "1"))) :
        a \in {-1, 1}, c \in Bit}
    \cup {Equation(Term(1, q[1]) \o Term(q[2], q[3]) \o Term(1, "y"),
                   Side(Term(q[4], q[1]) \o Term(q[5], "1"))) :
        q \in {r \in MultiAtoms \X Bit \X MultiAtoms \X Bit \X Bit : r[1] # r[3]}}

\* Two equations: a1*x + b1*y = c1, a2*x + b2*y = c2, and systems with a
\* non-linear equation in either place.
NonlinearEquations ==
    {Equation(Term(1, k) \o Term(b, "y"), Side(Term(c, "1"))) :
        k \in MultiAtoms, b \in Bit, c \in Bit}
SystemTexts ==
    {Linear2(q[1], q[2], q[3]) \o <<SepTok>> \o Linear2(q[4], q[5], q[6]) :
        q \in SysCoefs \X SysCoefs \X Bit \X SysCoefs \X SysCoefs \X Bit}
    \cup {e \o <<SepTok>> \o Linear2(1, b, 1) : e \in NonlinearEquations, b \in Bit}
    \cup {Linear2(1, b, 1) \o <<SepTok>> \o e : e \in NonlinearEquations, b \in Bit}
    \cup {Equation(Term(1, k1), Term(1, "1")) \o <<SepTok>>
              \o Equation(Term(1, k2), Term(1, "1")) :
            k1 \in MultiAtoms, k2 \in MultiAtoms}
    \cup {lead \o Linear2(1, 1, 1) \o <<SepTok>> \o mid \o Linear2(1, b, c) :
            lead \in {<<>>, <<SepTok>>}, mid \in {<<>>, <<SepTok>>},
            b \in {-1, 1}, c \in Bit}

\* Malformed texts: the empty text, no '=', two '=', an empty side, characters
\* outside the allowed set, no variable, and the same inside a system.  A
\* separator stands between two non-empty pieces or alone; the systems above
\* also come with a separator in front or a doubled one.
X1 == Term(1, "x")
Y1 == Term(1, "y")
One == Term(1, "1")
Bad(ch) == <<Tok("bad", 0, ch)>>
MalformedTexts ==
    {<<>>, X1, X1 \o One, <<EqTok>>, X1 \o <<EqTok>>, <<EqTok>> \o X1,
     Equation(X1, One) \o <<EqTok>> \o One, Equation(One, One),
     Equation(X1, One) \o Bad("$"), Bad("$") \o Bad("@") \o X1,
     Bad("#"), Equation(One, One) \o Bad("$"),
     X1 \o Y1, X1 \o Y1 \o <<EqTok>>, <<EqTok>> \o X1 \o Y1,
     Equation(X1 \o Y1, One) \o <<EqTok>> \o One,
     Linear2(1, 1, 1) \o <<SepTok>> \o X1,
     X1 \o <<SepTok>> \o Linear2(1, 1, 1),
     Linear2(1, 1, 1) \o <<SepTok>> \o Equation(X1, One) \o <<EqTok>> \o One,
     Linear2(1, 1, 1) \o <<SepTok>> \o Y1 \o <<EqTok>>,
     <<EqTok>> \o Y1 \o <<SepTok>> \o Linear2(1, 1, 1),
     Linear2(1, 1, 1) \o <<SepTok>> \o Linear2(1, -1, 0) \o Bad("$"),
     Equation(One, One) \o <<SepTok>> \o Equation(One, One),
     <<SepTok>>}

\* The equations the specification quotes: 2x + 3 = 7, 5x - 2 = 3x + 8,
\* 2x - 4 = 2x + 7, and 3x + 1 = 2 of the numeric tests.
QuotedTexts ==
    {Equation(Term(2, "x") \o Term(3, "1"), Term(7, "1")),
     Equation(Term(5, "x") \o Term(-2, "1"), Term(3, "x") \o Term(8, "1")),
     Equation(Term(2, "x") \o Term(-4, "1"), Term(2, "x") \o Term(7, "1")),
     Equation(Term(3, "x") \o Term(1, "1"), Term(2, "1"))}

SolveTexts ==
    LinearTexts \cup OtherLinearTexts \cup {BigText} \cup QuotedTexts \cup NonlinearTexts
        \cup MultiTexts \cup SystemTexts \cup MalformedTexts

\* Substitution calls: an equation and an assignments text.
SubstitutionTexts ==
    {Linear2(a, b, c) : a \in Bit, b \in Bit, c \in Bit}
    \cup {Equation(Term(1, k) \o Term(1, "x"), Term(2, "1")) : k \in {"x^2", "xy"}}
    \cup {X1, X1 \o <<EqTok>>, Equation(X1, One) \o <<EqTok>> \o One,
          Equation(X1, One) \o Bad("$"), <<>>}
AssignmentTexts ==
    {<<>>, <<Assign("x", 1)>>, <<Assign("y", 1)>>, <<Assign("z", 1)>>,
     <<Assign("x", 1), Assign("y", 0)>>, <<Assign("x", 0), Assign("y", 1)>>,
     <<Assign("x", 0), Assign("x", 1), Assign("y", 1)>>,
     <<Assign("x", 1), Assign("y", 1), Assign("z", 2)>>,
     <<[Assign("x", 1) EXCEPT !.has_eq = FALSE]>>,
     <<Assign("x", 1), [Assign("y", 1) EXCEPT !.has_eq = FALSE]>>}

\* ---------------------------------------------------------------- the machine
Init ==
    /\ \/ op = "solve" /\ text \in SolveTexts /\ values = <<>>
       \/ op = "substitution" /\ text \in SubstitutionTexts /\ values \in AssignmentTexts
    /\ trail = [m \in Modes |-> Pending]
    /\ work = NoWork /\ display = NotShown
    /\ db = NoUsers /\ clock = 0
    /\ source = <<>> /\ lexed = NotLexed
    /\ analysis = NotAnalysed
    /\ WindowIdle

\* solve(text, mode)
Solve(mode) ==
    /\ op = "solve"
    /\ trail[mode].kind = "pending"
    /\ trail' = [trail EXCEPT ![mode] = solve(text, mode)]
    /\ UNCHANGED <<op, text, values, work, display, db, clock, source, lexed, analysis, gui_vars>>

\* solve_substitution(text, values, mode)
SolveSubstitution ==
    /\ op = "substitution"
    /\ \E m \in Modes :
          /\ trail[m].kind = "pending"
          /\ trail' = [trail EXCEPT ![m] = solve_substitution(text, values, m)]
    /\ UNCHANGED <<op, text, values, work, display, db, clock, source, lexed, analysis, gui_vars>>

\* analyze_result on the result of a system solver in one mode
AnalyzeResult(mode) ==
    /\ op = "solve"
    /\ trail[mode].kind = "trail" /\ trail[mode].method \in SystemResults
    /\ analysis[mode].kind = "pending"
    /\ analysis' = [analysis EXCEPT
                       ![mode] = analyze_system(Normalise(text), var_names(Normalise(text)),
                                                trail[mode].final_answer)]
    /\ UNCHANGED <<op, text, values, trail, work, display, db, clock, source, lexed, gui_vars>>

Next ==
    \/ \E mode \in Modes : Solve(mode)
    \/ SolveSubstitution
    \/ \E mode \in Modes : AnalyzeResult(mode)

Spec == Init /\ [][Next]_vars

\* The coefficient check as a function of the equation that reaches it: any
\* non-zero coefficient and any right side.
Fractions == {Rat(n, d) : n \in -MaxNum .. MaxNum, d \in 1 .. MaxDen}
DisplayInit ==
    /\ work \in [coeff : Fractions \ {RZero}, rhs : Fractions]
    /\ display = NotShown
    /\ op = "solve" /\ text = <<>> /\ values = <<>>
    /\ trail = [m \in Modes |-> Pending]
    /\ db = NoUsers /\ clock = 0
    /\ source = <<>> /\ lexed = NotLexed
    /\ analysis = NotAnalysed
    /\ WindowIdle
CoefficientCheck ==
    /\ display.kind = "pending"
    /\ work.coeff # RZero
    /\ display' = coefficient_check(work.coeff, work.rhs)
    /\ UNCHANGED <<op, text, values, trail, work, db, clock, source, lexed, analysis, gui_vars>>
DisplayNext == CoefficientCheck
DisplaySpec == DisplayInit /\ [][DisplayNext]_vars

\* The history store: "ann" can register, "al" is too short a name and stays
\* unknown.
Usernames == {<<"a", "n", "n">>, <<"a", "l">>}
StorageInit ==
    /\ db = NoUsers /\ clock = 0
    /\ op = "solve" /\ text = <<>> /\ values = <<>>
    /\ trail = [m \in Modes |-> Pending]
    /\ work = NoWork /\ display = NotShown
    /\ source = <<>> /\ lexed = NotLexed
    /\ analysis = NotAnalysed
    /\ WindowIdle
RegisterUser(username) ==
    /\ db' = register_user(db, username)
    /\ UNCHANGED <<op, text, values, trail, work, display, clock, source, lexed, analysis, gui_vars>>
AddHistory(username) ==
    /\ clock < MaxAdds
    /\ clock' = IF username \in DOMAIN db THEN clock + 1 ELSE clock
    /\ db' = add_history(db, username, Record(clock + 1))
    /\ UNCHANGED <<op, text, values, trail, work, display, source, lexed, analysis, gui_vars>>
ClearHistory(username) ==
    /\ db' = clear_history(db, username)
    /\ UNCHANGED <<op, text, values, trail, work, display, clock, source, lexed, analysis, gui_vars>>
StorageNext ==
    \E username \in Usernames :
        RegisterUser(username) \/ AddHistory(username) \/ ClearHistory(username)
StorageSpec == StorageInit /\ [][StorageNext]_vars

\* The variable detector and the rewriting of _parse_side as functions of the
\* raw string: every string of at most MaxChars characters over a few letters,
\* a digit and a sign.
Chars == {"p", "i", "e", "E", "2", "+"}
RawStrings == UNION {[1..n -> Chars] : n \in 0..MaxChars}
LexInit ==
    /\ source \in RawStrings /\ lexed = NotLexed
    /\ op = "solve" /\ text = <<>> /\ values = <<>>
    /\ trail = [m \in Modes |-> Pending]
    /\ work = NoWork /\ display = NotShown
    /\ db = NoUsers /\ clock = 0
    /\ analysis = NotAnalysed
    /\ WindowIdle
\* _detect_variables(source)
DetectVariables ==
    /\ lexed.kind = "pending"
    /\ lexed' = detect_variables_in(source)
    /\ UNCHANGED <<op, text, values, trail, work, display, db, clock, source, analysis, gui_vars>>
\* _parse_side with the detected variables, up to the call of parse_expr.
ExpandImplicitVars ==
    /\ lexed.kind = "detected"
    /\ lexed' = [lexed EXCEPT
                    !.kind = "expanded",
                    !.expanded = expand_implicit_vars(
                        source, {lexed.variables[k] : k \in DOMAIN lexed.variables})]
    /\ UNCHANGED <<op, text, values, trail, work, display, db, clock, source, analysis, gui_vars>>
LexNext == DetectVariables \/ ExpandImplicitVars
LexSpec == LexInit /\ [][LexNext]_vars

\* The window: equations are sent, their threads finish, the user presses
\* Stop or Clear, and the main loop runs the callbacks that are due, in any
\* order.
GuiInit ==
    /\ WindowIdle
    /\ op = "solve" /\ text = <<>> /\ values = <<>>
    /\ trail = [m \in Modes |-> Pending]
    /\ work = NoWork /\ display = NotShown
    /\ db = NoUsers /\ clock = 0
    /\ source = <<>> /\ lexed = NotLexed
    /\ analysis = NotAnalysed
\* _on_send: the entry is disabled, the label added, the thread started with
\* the generation of the moment.
OnSend ==
    /\ input_enabled
    /\ \E n \in 1..MaxSends :
          /\ solves[n].state = "unsent"
          /\ \A k \in 1..(n - 1) : solves[k].state # "unsent"
          /\ solves' = [solves EXCEPT ![n] = [state |-> "computing", gen |-> solve_gen,
                                              loading |-> TRUE, frame |-> FALSE]]
    /\ input_enabled' = FALSE
    /\ fired' = NoEvent
    /\ UNCHANGED <<solver_vars, solve_gen, timers, anim_queue, anim_idx>>
\* The thread _solve of solve n ends: the result, with or without fraction
\* markers in its final answer, or the error is handed to after(0, ...).
ThreadFinish(n) ==
    /\ solves[n].state = "computing"
    /\ \E kind \in {"result", "error"}, marked \in BOOLEAN :
          /\ kind = "error" => ~marked
          /\ timers' = timers \cup {Timer(kind, solves[n].gen, TRUE, n, "", 0, marked)}
    /\ solves' = [solves EXCEPT ![n].state = "posted"]
    /\ fired' = NoEvent
    /\ UNCHANGED <<solver_vars, solve_gen, input_enabled, anim_queue, anim_idx>>
\* _stop_solving
StopSolving ==
    /\ ~input_enabled
    /\ solve_gen < MaxGen
    /\ anim_queue' = NoQueue /\ anim_idx' = 0
    /\ solve_gen' = solve_gen + 1
    /\ input_enabled' = TRUE
    /\ fired' = NoEvent
    /\ UNCHANGED <<solver_vars, solves, timers>>
\* _clear_chat: every widget of the chat is destroyed.
ClearChat ==
    /\ solve_gen < MaxGen
    /\ anim_queue' = NoQueue /\ anim_idx' = 0
    /\ solve_gen' = solve_gen + 1
    /\ solves' = [n \in DOMAIN solves |->
                     [solves[n] EXCEPT !.loading = FALSE, !.frame = FALSE]]
    /\ input_enabled' = TRUE
    /\ fired' = NoEvent
    /\ UNCHANGED <<solver_vars, timers>>
\* The main loop runs a callback that is due.
Applied(tm, out) ==
    /\ timers' = (timers \ {tm}) \cup out.new
    /\ anim_idx' = out.idx
    /\ input_enabled' = out.enabled
    /\ solves' = out.solves
    /\ fired' = Event(tm.owner, solves[tm.owner].gen # solve_gen, out.effect)
Fire(tm) ==
    /\ tm \in timers
    /\ IF tm.guarded /\ tm.gen # solve_gen
       THEN /\ Applied(tm, Outcome({}, anim_idx, input_enabled, solves, "none"))
            /\ UNCHANGED anim_queue
       ELSE IF tm.kind = "result"
       THEN /\ Applied(tm, show_result(tm, input_enabled, solves, solve_gen))
            /\ anim_queue' = [owner |-> tm.owner, items |-> QueueItems,
                              marked |-> tm.marked]
       ELSE /\ Applied(tm, run_callback(tm, anim_queue, anim_idx, input_enabled,
                                        solves, solve_gen))
            /\ UNCHANGED anim_queue
    /\ UNCHANGED <<solver_vars, solve_gen>>
Threads == \E n \in 1..MaxSends : ThreadFinish(n)
MainLoop == \E tm \in timers : Fire(tm)
GuiNext == OnSend \/ Threads \/ StopSolving \/ ClearChat \/ MainLoop
GuiSpec == GuiInit /\ [][GuiNext]_vars
\* Every thread ends (the solver terminates) and the main loop runs every
\* callback that is due; the user owes nothing.
GuiLiveSpec == GuiSpec /\ WF_vars(Threads) /\ WF_vars(MainLoop)




\* ---------------------------------------------------------------- properties
\* The text of the call as the engine reads it.
Typed == Normalise(text)
\* A single well-formed equation in one variable whose typed terms are
\* multiples of the variable and constants.
TypedLinearSingle ==
    /\ op = "solve"
    /\ validate_characters(Typed) = {}
    /\ \A i \in DOMAIN Typed : Typed[i].t # "sep"
    /\ equation_shape_error(Typed) = ""
    /\ Len(var_names(Typed)) = 1
    /\ \A i \in DOMAIN Typed :
           Typed[i].t = "term" => Typed[i].k \in {"1", var_names(Typed)[1]}
TheVar == var_names(Typed)[1]
TypedLhs == parse_side(SplitOn(Typed, "eq")[1])
TypedRhs == parse_side(SplitOn(Typed, "eq")[2])
\* The coefficient of the variable and the constant of lhs - rhs.
FinalCoefficient == TypedLhs[TheVar] - TypedRhs[TheVar]
FinalConstant == TypedLhs["1"] - TypedRhs["1"]
Returned(m) == trail[m].kind # "pending"
LastCheck(t) == t.verification_steps[Len(t.verification_steps)]

\* C1: for every linear single-variable equation whose final variable
\* coefficient is non-zero, the solution put back into both original sides
\* gives equal values (exactly in Exact mode, within the tolerance in
\* Approximate mode): the verification's final comparison succeeds.
C1_RoundTrip ==
    \A m \in Modes :
        (TypedLinearSingle /\ FinalCoefficient # 0 /\ Returned(m)) =>
            /\ trail[m].kind = "trail"
            /\ trail[m].verification_steps # <<>>
            /\ LastCheck(trail[m]).ok
            /\ m = "symbolic" => LastCheck(trail[m]).lhs = LastCheck(trail[m]).rhs

\* The exact root of a linear equation with non-zero final coefficient.
Root == Rat(-FinalConstant, FinalCoefficient)
\* The first n decimal digits of r/q for 0 <= r < q, and the remainder left.
RECURSIVE DigitsOf(_, _, _)
DigitsOf(r, q, n) ==
    IF n = 0 THEN [fd |-> <<>>, r |-> r]
    ELSE LET d == DigitsOf(r, q, n - 1)
         IN  [fd |-> Append(d.fd, (10 * d.r) \div q), r |-> (10 * d.r) % q]
\* A digit sequence plus one unit in its last place; carry tells that it
\* overflowed into the integer part.
RECURSIVE Increment(_)
Increment(fd) ==
    IF fd = <<>> THEN [fd |-> <<>>, carry |-> 1]
    ELSE IF fd[Len(fd)] < 9
         THEN [fd |-> [fd EXCEPT ![Len(fd)] = @ + 1], carry |-> 0]
    ELSE LET rest == Increment(SubSeq(fd, 1, Len(fd) - 1))
         IN  [fd |-> Append(rest.fd, 0), carry |-> rest.carry]
\* The rational q rounded to ten decimal places, trailing zeros removed (no
\* root of the equations drawn lies half-way between two such decimals).
TenPlaces(q) ==
    LET d == DigitsOf(Abs(q[1]) % q[2], q[2], 10)
        up == IF 2 * d.r > q[2] THEN Increment(d.fd) ELSE [fd |-> d.fd, carry |-> 0]
    IN  Dec(q[1] < 0, Abs(q[1]) \div q[2] + up.carry, StripZeros(up.fd))
\* The rational q has at most ten decimal places.
HasTenPlaces(q) == DigitsOf(Abs(q[1]) % q[2], q[2], 10).r = 0

\* C2 as stated: for a*x + b = c*x + d with a # c, the final answer is the
\* unique root (d - b)/(a - c) and the Exact and the Approximate mode report
\* the same value.
C2_SameRootInBothModes ==
    (TypedLinearSingle /\ FinalCoefficient # 0) =>
        /\ Returned("symbolic") =>
               trail["symbolic"].final_answer = Answer("solution", <<Exact(Root)>>)
        /\ Returned("numerical") =>
               /\ trail["numerical"].final_answer =
                      Answer("solution", <<Decimal(TenPlaces(Root))>>)
               /\ HasTenPlaces(Root)

\* C2, amended: for a*x + b = c*x + d with a # c, Exact mode answers the
\* root (d - b)/(a - c) as a reduced fraction and Approximate mode answers
\* that root rounded to ten decimal places with the trailing zeros removed.
C2_RootPerMode ==
    (TypedLinearSingle /\ FinalCoefficient # 0) =>
        /\ Returned("symbolic") =>
               trail["symbolic"].final_answer = Answer("solution", <<Exact(Root)>>)
        /\ Returned("numerical") =>
               trail["numerical"].final_answer =
                   Answer("solution", <<Decimal(TenPlaces(Root))>>)
\* Both modes have answered 3x + 1 = 2: 1/3 and 0.3333333333.
C2_Witness ==
    /\ TypedLinearSingle /\ FinalCoefficient = 3 /\ FinalConstant = -1
    /\ trail["symbolic"].final_answer = Answer("solution", <<Exact(<<1, 3>>)>>)
    /\ trail["numerical"].final_answer =
           Answer("solution", <<Decimal(Dec(FALSE, 0, <<3, 3, 3, 3, 3, 3, 3, 3, 3, 3>>))>>)

\* ---- systems of two lines
TypedEquations == raw_equations(Typed)
\* The text is two well-formed equations in x and y built from x, y and
\* numbers alone.
TypedLinearSystem ==
    /\ op = "solve" /\ validate_characters(Typed) = {}
    /\ Len(TypedEquations) = 2
    /\ var_names(Typed) = <<"x", "y">>
    /\ \A i \in DOMAIN Typed : Typed[i].t = "term" => Typed[i].k \in {"1", "x", "y"}
    /\ \A i \in {1, 2} :
          /\ Cardinality({j \in DOMAIN TypedEquations[i] : TypedEquations[i][j].t = "eq"}) = 1
          /\ TypedEquations[i][1].t # "eq"
          /\ TypedEquations[i][Len(TypedEquations[i])].t # "eq"
\* Equation i as a*x + b*y = c.
Line(i) ==
    LET parts == SplitOn(TypedEquations[i], "eq")
        e == ExprSub(parse_side(parts[1]), parse_side(parts[2]))
    IN  [a |-> e["x"], b |-> e["y"], c |-> -e["1"]]
TwoLines == TypedLinearSystem /\ \A i \in {1, 2} : Line(i).a # 0 \/ Line(i).b # 0
Parallel == Line(1).a * Line(2).b = Line(2).a * Line(1).b
Coincident ==
    /\ Parallel
    /\ Line(1).a * Line(2).c = Line(2).a * Line(1).c
    /\ Line(1).b * Line(2).c = Line(2).b * Line(1).c

\* C3: for two linear equations in two unknowns solve yields exactly one
\* (x, y) pair when the lines are not parallel, the Inconsistent outcome when
\* they are parallel and distinct, the Dependent outcome when they coincide.
C3_SystemOutcome ==
    \A m \in Modes :
        (TwoLines /\ Returned(m)) =>
            /\ trail[m].kind = "trail"
            /\ ~Parallel =>
                  /\ trail[m].final_answer.tag = "unique"
                  /\ Len(trail[m].final_answer.vals) = 2
            /\ (Parallel /\ ~Coincident) =>
                  trail[m].final_answer.tag \in {"inconsistent", "singular"}
            /\ Coincident => trail[m].final_answer.tag = "dependent"
\* Approximate mode has answered two coincident lines with an error.
C3_Witness ==
    TwoLines /\ Coincident /\ trail["numerical"].kind = "error"
        /\ trail["numerical"].error = "Could not solve system numerically"

\* ---- the degenerate branch
\* The text is one well-formed equation in one variable.
TypedSingle ==
    /\ op = "solve" /\ validate_characters(Typed) = {}
    /\ \A i \in DOMAIN Typed : Typed[i].t # "sep"
    /\ equation_shape_error(Typed) = "" /\ Len(var_names(Typed)) = 1
\* Everything but a constant cancels between the two sides.
VariableCancels == Support(ExprSub(TypedLhs, TypedRhs)) \subseteq {"1"}
Degenerate == {"The variable cancels - identity", "The variable cancels - contradiction"}
DegenerateSteps(t) == {i \in DOMAIN t.steps : t.steps[i].description \in Degenerate}

\* C4: when the variable's coefficient reduces to zero the trail ends with
\* exactly one degenerate step, an Identity step iff the remaining constant is
\* 0 and a Contradiction step otherwise, with no division step and no
\* verification step.
C4_DegenerateBranch ==
    \A m \in Modes :
        (TypedSingle /\ VariableCancels /\ Returned(m)) =>
            /\ trail[m].kind = "trail"
            /\ DegenerateSteps(trail[m]) = {Len(trail[m].steps)}
            /\ trail[m].steps[Len(trail[m].steps)].description =
                  (IF FinalConstant = 0 THEN "The variable cancels - identity"
                   ELSE "The variable cancels - contradiction")
            /\ trail[m].final_answer.tag =
                  (IF FinalConstant = 0 THEN "identity" ELSE "contradiction")
            /\ \A i \in DOMAIN trail[m].steps :
                  trail[m].steps[i].description # "Divide both sides"
            /\ trail[m].verification_steps = <<>>
\* Exact mode has left x^2 = x^2 + 1 with a TypeError.
C4_Witness ==
    /\ TypedSingle /\ VariableCancels
    /\ TypedLhs["x^2"] = 1 /\ TypedRhs["x^2"] = 1 /\ FinalConstant = -1
    /\ trail["symbolic"].kind = "crash" /\ trail["symbolic"].error = "TypeError"

\* C5: in every Trail returned by solve, verification_steps is non-empty iff
\* a unique solution (or a concrete, checkable solution) was found; it is empty
\* for identity, contradiction, inconsistent and dependent outcomes.
C5_VerificationIffSolved ==
    \A m \in Modes :
        (op = "solve" /\ trail[m].kind = "trail") =>
            /\ trail[m].final_answer.tag \in {"solution", "unique"} =>
                  trail[m].verification_steps # <<>>
            /\ trail[m].final_answer.tag \in
                  {"identity", "contradiction", "inconsistent", "singular", "dependent"} =>
                  trail[m].verification_steps = <<>>
\* Exact mode has answered two coincident lines: a Dependent outcome that
\* carries verification steps.
C5_Witness ==
    /\ TwoLines /\ Coincident
    /\ trail["symbolic"].kind = "trail"
    /\ trail["symbolic"].final_answer.tag = "dependent"
    /\ Len(trail["symbolic"].verification_steps) = 4

\* C6: every Trail carries validation_status, "pass" iff the verification's
\* final comparison holds and "fail" otherwise; nonlinear and contradiction
\* trails, which have no verification, are tagged "fail".
C6_ValidationStatus ==
    \A m \in Modes :
        (op = "solve" /\ trail[m].kind = "trail") =>
            /\ trail[m].validation_status \in {"pass", "fail"}
            /\ trail[m].validation_status = "pass" <=>
                  /\ trail[m].verification_steps # <<>>
                  /\ LastCheck(trail[m]).ok
\* Approximate mode has answered 2x - 4 = 2x + 7: a contradiction tagged "pass".
C6_Witness ==
    /\ TypedLinearSingle /\ TypedLhs = [ZeroExpr EXCEPT !["x"] = 2, !["1"] = -4]
    /\ TypedRhs = [ZeroExpr EXCEPT !["x"] = 2, !["1"] = 7]
    /\ trail["numerical"].final_answer.tag = "contradiction"
    /\ trail["numerical"].verification_steps = <<>>
    /\ trail["numerical"].validation_status = "pass"

\* C7: for every parsed equation the classifier returns Linear or
\* NonLinear with one of the reasons Degree(n >= 2), Product, Denominator,
\* Transcendental: never an 'unknown' / 'could not determine the degree'
\* outcome.
C7_ClassificationTotal ==
    \A m \in Modes :
        (op = "solve" /\ Returned(m)) =>
            /\ trail[m].error # "Could not determine the degree"
            /\ trail[m].nonlinear_education =>
                  /\ trail[m].reason \in
                        {"degree", "product", "denominator", "transcendental"}
                  /\ trail[m].reason = "degree" => trail[m].degree >= 2
\* sqrt(x) = 1 (or the like) has been rejected as 'could not determine'.
C7_Witness ==
    /\ TypedSingle /\ ExprSub(TypedLhs, TypedRhs)["sqrt(x)"] # 0
    /\ \E m \in Modes : trail[m].kind = "error"
                           /\ trail[m].error = "Could not determine the degree"

\* ---- the non-linear path
\* lhs - rhs of a typed equation.
NetOf(eq) == ExprSub(parse_side(SplitOn(eq, "eq")[1]), parse_side(SplitOn(eq, "eq")[2]))
\* Something other than x, y and a number survives in e.
Curved(e) == \E k \in Monos \ {"1", "x", "y"} : e[k] # 0
\* The equation a non-linear trail is about: the only one, or the first of a
\* system that is not linear.
Offending ==
    IF Len(TypedEquations) = 1 \/ Curved(NetOf(TypedEquations[1]))
    THEN NetOf(TypedEquations[1]) ELSE NetOf(TypedEquations[2])
\* The precedence of the reasons, read off the surviving terms: x*y has total
\* degree 2 and degree 1 in each variable, x^2 has degree 2 in x.
Precedence(e) ==
    IF e["sin(x)"] # 0 THEN "transcendental"
    ELSE IF e["1/x"] # 0 THEN "denominator"
    ELSE IF e["xy"] # 0 /\ e["x^2"] = 0 THEN "product"
    ELSE "degree"

\* C8: on every path the non-linear reason is Transcendental if a function is
\* applied to a variable, else Denominator if a variable is in a denominator,
\* else Product if the total degree is >= 2 while every single-variable degree
\* is <= 1, else Degree(n) with n > 1.
C8_ReasonPrecedence ==
    \A m \in Modes :
        (op = "solve" /\ trail[m].kind = "trail" /\ trail[m].nonlinear_education) =>
            /\ trail[m].reason = Precedence(Offending)
            /\ trail[m].final_answer.tag = Precedence(Offending)
            /\ trail[m].reason = "degree" => trail[m].degree > 1
\* Both modes have explained an equation in which x*y stands beside 1/x (the
\* denominator wins) and, in another run, a system whose second equation is a
\* product.
C8_Witness ==
    /\ \A m \in Modes : trail[m].kind = "trail" /\ trail[m].nonlinear_education
    /\ \/ /\ Offending["xy"] # 0 /\ Offending["1/x"] # 0
          /\ trail["symbolic"].reason = "denominator"
       \/ /\ Len(TypedEquations) = 2 /\ ~Curved(NetOf(TypedEquations[1]))
          /\ trail["numerical"].reason = "product"

\* The text passes the input checks: allowed characters, a variable letter,
\* and in every equation exactly one '=' with something on both sides.
HasBad == \E i \in DOMAIN text : text[i].t = "bad"
Offenders == {text[i].k : i \in {j \in DOMAIN text : text[j].t = "bad"}}
NoLetter == \A i \in DOMAIN text : text[i].t = "term" => text[i].k = "1"
Shaped(eq) ==
    /\ Cardinality({j \in DOMAIN eq : eq[j].t = "eq"}) = 1
    /\ eq[1].t # "eq" /\ eq[Len(eq)].t # "eq"
MalformedEquation ==
    \/ text = <<>> \/ HasBad \/ NoLetter
    \/ \E i \in DOMAIN TypedEquations : ~Shaped(TypedEquations[i])
\* What the linearity check of the path says of the text.
NonlinearReasons == {"degree", "product", "denominator", "transcendental"}
Classified ==
    IF Len(TypedEquations) > 1
    THEN system_linearity(eq_objects_of(TypedEquations),
                          {var_names(Typed)[i] : i \in DOMAIN var_names(Typed)}, 1).reason
    ELSE IF Len(var_names(Typed)) > 1
    THEN multi_linearity(NetOf(Typed), {"x", "y"}).reason
    ELSE single_linearity(NetOf(Typed), var_names(Typed)[1]).reason

\* C9: whenever an equation (or any equation of a system) is classified
\* non-linear, in either mode, solve returns a Trail whose steps begin with
\* the show-original step, whose final answer is the explanation of the
\* category, whose verification is empty and which is flagged
\* nonlinear_education.
C9_NonlinearNeverThrows ==
    \A m \in Modes :
        (op = "solve" /\ Returned(m) /\ ~MalformedEquation
            /\ Classified \in NonlinearReasons) =>
            /\ trail[m].kind = "trail"
            /\ trail[m].steps # <<>>
            /\ trail[m].steps[1].description = "Starting with the original equation"
            /\ trail[m].final_answer.tag \in NonlinearReasons
            /\ trail[m].final_answer.tag = trail[m].reason
            /\ trail[m].verification_steps = <<>>
            /\ trail[m].nonlinear_education
\* Both modes have explained a system whose second equation has x in a
\* denominator.
C9_Witness ==
    /\ op = "solve" /\ ~MalformedEquation /\ Len(TypedEquations) = 2
    /\ ~Curved(NetOf(TypedEquations[1])) /\ NetOf(TypedEquations[2])["1/x"] # 0
    /\ \A m \in Modes : trail[m].kind = "trail" /\ trail[m].nonlinear_education
                           /\ trail[m].final_answer.tag = "denominator"

\* Some variable of the equation has no assignment in the values text.
MissingAssignment ==
    \E i \in DOMAIN text :
        /\ text[i].t = "term"
        /\ \E v \in LettersOf(text[i].k) :
              \A j \in DOMAIN values : values[j].name # v

\* C10: malformed input is rejected with an InputError before any step is
\* generated and no Trail is returned: an empty equation, a missing or a
\* repeated '=' (in the equation or in any equation of a system), an empty
\* side, a character outside the allowed set (the error names the offending
\* characters), no variable letter, and a missing substitution assignment.
C10_MalformedRejected ==
    \A m \in Modes :
        (/\ Returned(m)
         /\ \/ op = "solve" /\ MalformedEquation
            \/ /\ op = "substitution"
               /\ \/ text = <<>> \/ HasBad \/ NoLetter \/ ~Shaped(text)
                  \/ MissingAssignment) =>
            /\ trail[m].kind = "error"
            /\ trail[m].steps = <<>> /\ trail[m].verification_steps = <<>>
            /\ HasBad => /\ trail[m].error = "Invalid character(s)"
                         /\ trail[m].bad = Offenders
\* A system whose second equation lacks a side has been rejected in both
\* modes, and in another run a substitution without a value for y.
C10_Witness ==
    \/ /\ op = "solve" /\ ~HasBad /\ ~NoLetter /\ Len(TypedEquations) = 2
       /\ Shaped(TypedEquations[1]) /\ ~Shaped(TypedEquations[2])
       /\ \A m \in Modes : trail[m].kind = "error"
    \/ /\ op = "substitution" /\ ~HasBad /\ Shaped(text) /\ MissingAssignment
       /\ \E m \in Modes : trail[m].kind = "error"
                              /\ trail[m].error = "Missing value(s) for variable(s)"

\* ---- linear inputs
\* The text passes the input checks and is built from x, y and numbers alone.
LinearInput ==
    /\ op = "solve" /\ ~MalformedEquation
    /\ \A i \in DOMAIN text : text[i].t = "term" => text[i].k \in {"1", "x", "y"}

\* C11: every grammatically valid linear input produces a complete Trail
\* rather than an error, in both modes: identity, contradiction, inconsistent
\* and dependent outcomes (a singular matrix in Approximate mode included) are
\* returned as Trails, never raised as exceptions.
C11_LinearAlwaysTrail ==
    \A m \in Modes : (LinearInput /\ Returned(m)) => trail[m].kind = "trail"
\* Two coincident lines: Exact mode has returned the Dependent trail, and
\* Approximate mode has raised.
C11_Witness ==
    /\ LinearInput /\ Len(TypedEquations) = 2
    /\ trail["symbolic"].kind = "trail"
    /\ trail["symbolic"].final_answer.tag = "dependent"
    /\ trail["numerical"].kind = "error"

\* ---- the steps of the two modes
\* What each step of a trail says it does, in order.
Descriptions(t) == [i \in DOMAIN t.steps |-> t.steps[i].description]
BothTrails == \A m \in Modes : trail[m].kind = "trail"

\* C12: for every input, Exact mode and Approximate mode produce the same
\* sequence of steps; the mode changes how the numbers are written, never
\* which steps appear.
C12_SameStepsInBothModes ==
    BothTrails => Descriptions(trail["symbolic"]) = Descriptions(trail["numerical"])
\* An equation with one root solved in both modes: Exact mode moves the
\* constant and divides, Approximate mode reads off coefficient and constant.
C12_Witness ==
    /\ op = "solve" /\ BothTrails
    /\ \A m \in Modes : trail[m].final_answer.tag = "solution"
    /\ \E i \in DOMAIN trail["symbolic"].steps :
           trail["symbolic"].steps[i].description = "Divide both sides"
    /\ \E i \in DOMAIN trail["numerical"].steps :
           trail["numerical"].steps[i].description = "Identify the coefficient and constant"

\* ---- fraction markers
\* A fraction marker opens inside another one that is still open.
Nested(s) ==
    \E i \in DOMAIN s :
        /\ s[i] = "["
        /\ Cardinality({j \in 1 .. i - 1 : s[j] = "["})
             > Cardinality({j \in 1 .. i - 1 : s[j] = "]"})

\* C13: no expression and no final_answer contains a fraction marker nested
\* inside another one; a division step that would nest one (the coefficient
\* or either side is itself shown as a marker) is written with the division
\* sign instead.
C13_NoNestedMarker ==
    display.kind = "shown" => ~Nested(display.divide_expr) /\ ~Nested(display.final_answer)
\* A whole coefficient other than 1 and a fractional right side: the division
\* step is written as a stacked fraction around the right side's marker.
C13_Witness ==
    /\ display.kind = "shown"
    /\ work.coeff[2] = 1 /\ work.rhs[2] # 1
    /\ Nested(display.divide_expr)

\* ---- step numbers
\* C14: in every Trail, on any path (solved, identity, contradiction,
\* inconsistent, non-linear, substitution), the steps are numbered 1, 2, 3, ...
\* in order, and so are the verification steps.
C14_StepsNumbered ==
    \A m \in Modes :
        trail[m].kind = "trail" =>
            /\ \A i \in DOMAIN trail[m].steps : trail[m].steps[i].step_number = i
            /\ \A i \in DOMAIN trail[m].verification_steps :
                   trail[m].verification_steps[i].step_number = i
\* A solved equation: a trail with several steps and several verification
\* steps, the last of each carrying its position.
C14_Witness ==
    \E m \in Modes :
        /\ trail[m].kind = "trail"
        /\ Len(trail[m].steps) >= 3 /\ Len(trail[m].verification_steps) >= 3
        /\ trail[m].steps[Len(trail[m].steps)].step_number = Len(trail[m].steps)
        /\ LastCheck(trail[m]).step_number = Len(trail[m].verification_steps)

\* ---- substitution
\* The two sides of the typed equation at the caller's values.
LeftValue == side_at(parse_side(SplitOn(Typed, "eq")[1]), values)
RightValue == side_at(parse_side(SplitOn(Typed, "eq")[2]), values)
\* What a step of a substitution trail does with the equation.
Role(st) ==
    IF st.description = "Starting with the original equation" THEN "original"
    ELSE IF st.description = "Given values to substitute" THEN "state values"
    ELSE IF st.description = "Substitute into the equation" THEN "substitute"
    ELSE IF st.description = "Get the value of the equation" THEN "difference"
    ELSE IF st.lhs # NoValue /\ st.rhs = NoValue THEN "evaluate LHS"
    ELSE IF st.lhs = NoValue /\ st.rhs # NoValue THEN "evaluate RHS"
    ELSE "other"
Roles(t) == [i \in DOMAIN t.steps |-> Role(t.steps[i])]
AfterOriginal(r) == IF r # <<>> /\ r[1] = "original" THEN Tail(r) ELSE r

\* C15: solve_substitution substitutes the given values and emits the steps
\* state values, substitute, evaluate LHS, evaluate RHS, difference, in that
\* order; validation_status is "pass" if and only if the evaluated left side
\* equals the evaluated right side, and "fail" otherwise.
C15_SubstitutionSteps ==
    \A m \in Modes :
        (op = "substitution" /\ trail[m].kind = "trail") =>
            /\ AfterOriginal(Roles(trail[m])) =
                  <<"state values", "substitute", "evaluate LHS", "evaluate RHS", "difference">>
            /\ trail[m].validation_status =
                  (IF LeftValue = RightValue THEN "pass" ELSE "fail")
\* A substitution that passes: the trail shows the evaluated left side and
\* then the difference, with no step for the right side.
C15_Witness ==
    \E m \in Modes :
        /\ op = "substitution" /\ trail[m].kind = "trail"
        /\ LeftValue = RightValue /\ trail[m].validation_status = "pass"
        /\ Roles(trail[m]) =
              <<"original", "state values", "substitute", "evaluate LHS", "difference">>

\* ---- history
\* The records of h are in order of decreasing epoch.
NewestFirst(h) == \A i, j \in DOMAIN h : i < j => h[i].epoch > h[j].epoch
\* One step of the store, seen through get_history: the list is unchanged,
\* emptied, or gains a newer record at the front and keeps its 200 most recent.
HistoryStep ==
    \A u \in Usernames :
        \/ get_history(db', u) = get_history(db, u)
        \/ get_history(db', u) = <<>>
        \/ /\ get_history(db', u) =
                 FirstN(<<Record(clock')>> \o get_history(db, u), 200)
           /\ NewestFirst(get_history(db', u))

\* C16: after any sequence of add_history calls get_history returns the
\* records newest first and never more than 200 of them, the most recent 200
\* being kept; after clear_history it returns the empty list.
C16_HistoryKeeps200 == [][HistoryStep]_vars
\* The store is full and has dropped records: more were written than are kept.
C16_Witness ==
    \E u \in Usernames :
        /\ Len(get_history(db, u)) = HistoryLimit
        /\ get_history(db, u)[1].epoch = clock
        /\ clock > HistoryLimit

\* ---- the stages of the single-variable engine
\* Exact mode has returned the trail of an isolation: one equation in one
\* variable that passed the linearity check.
Isolated ==
    /\ TypedSingle
    /\ trail["symbolic"].kind = "trail" /\ ~trail["symbolic"].nonlinear_education
IsolationSteps == trail["symbolic"].steps
\* The stage a step belongs to by its heading: 1 show original, 2
\* combine/expand, 3 expand parentheses, 4 move variable terms, 5 move
\* constants, 6 simplify, 7 coefficient check.
Stage(st) ==
    IF st.description = "Starting with the original equation" THEN 1
    ELSE IF st.description \in {"Combine like terms", "Expand",
                                "Expand and combine like terms"} THEN 2
    ELSE IF st.description = "Expand both sides" THEN 3
    ELSE IF st.description \in {"Subtract", "Add"}
         THEN (IF st.term[1] # RZero THEN 4 ELSE 5)
    ELSE IF st.description = "Simplify both sides" THEN 6
    ELSE 7
\* The first step shows the two sides as they were typed.
OriginalFirst ==
    /\ IsolationSteps[1].description = "Starting with the original equation"
    /\ IsolationSteps[1].lhs = SplitOn(Typed, "eq")[1]
    /\ IsolationSteps[1].rhs = SplitOn(Typed, "eq")[2]
    /\ \A i \in DOMAIN IsolationSteps : i > 1 => Stage(IsolationSteps[i]) > 1

OwnSimplify(i) ==
    /\ i > 1 /\ IsolationSteps[i].description = "Simplify both sides"
    /\ Stage(IsolationSteps[i - 1]) \in {4, 5}
MovesReached ==
    /\ TypedSingle
    /\ single_linearity(ExprSub(TypedLhs, TypedRhs), TheVar).reason = "linear"
    /\ Returned("symbolic")
StepsOfStage(k) == {i \in DOMAIN IsolationSteps : Stage(IsolationSteps[i]) = k}
\* What the left side holds beside its multiple of the variable.
LeftRest == Support([TypedLhs EXCEPT ![TheVar] = 0])
\* Step i moves the term q with the verb its sign asks for and is followed by
\* a "Simplify both sides" step.
MovesTerm(i, sign, q) ==
    /\ IsolationSteps[i].description = (IF sign > 0 THEN "Subtract" ELSE "Add")
    /\ IsolationSteps[i].term = q
    /\ i < Len(IsolationSteps)
    /\ IsolationSteps[i + 1].description = "Simplify both sides"

\* C18: in the move stages a step is emitted exactly when the term to move is
\* non-zero, with the verb "Subtract" for a positive and "Add" for a negative
\* term, and is followed by a "Simplify both sides" step; after the
\* move-variable stage the right side has no multiple of the variable, after
\* the move-constant stage the left side has no constant.
C18_MoveStages ==
    MovesReached =>
        /\ trail["symbolic"].kind = "trail"
        /\ Cardinality(StepsOfStage(4)) = (IF TypedRhs[TheVar] # 0 THEN 1 ELSE 0)
        /\ \A i \in StepsOfStage(4) :
               /\ MovesTerm(i, TypedRhs[TheVar], Lin(RInt(Abs(TypedRhs[TheVar])), RZero))
               /\ IsolationSteps[i + 1].rhs[1] = RZero
        /\ Cardinality(StepsOfStage(5)) = (IF LeftRest # {} THEN 1 ELSE 0)
        /\ \A i \in StepsOfStage(5) :
               /\ MovesTerm(i, TypedLhs["1"], Lin(RZero, RInt(Abs(TypedLhs["1"]))))
               /\ IsolationSteps[i + 1].lhs[2] = RZero
\* A negative multiple of the variable on the right and a negative constant
\* on the left: both are moved with "Add".
C18_Witness ==
    /\ MovesReached /\ trail["symbolic"].kind = "trail"
    /\ TypedRhs[TheVar] < 0 /\ TypedLhs["1"] < 0
    /\ \E i \in StepsOfStage(4) : IsolationSteps[i].description = "Add"
    /\ \E i \in StepsOfStage(5) : IsolationSteps[i].description = "Add"

\* ---- the coefficient check
StepsCalled(d) == {i \in DOMAIN IsolationSteps : IsolationSteps[i].description = d}
LastStep == Len(IsolationSteps)

\* C19: at the coefficient check, a left coefficient of 1 gives no division
\* step and the right side is the solution; a coefficient that is neither 0
\* nor 1 gives exactly a "Divide both sides by coeff" step followed by a
\* "Simplify to get the answer" step, and the solution is the right side
\* divided by the coefficient.
C19_CoefficientCheck ==
    (Isolated /\ FinalCoefficient # 0) =>
        /\ trail["symbolic"].final_answer =
              Answer("solution", <<Exact(Rat(-FinalConstant, FinalCoefficient))>>)
        /\ IF FinalCoefficient = 1
           THEN /\ StepsCalled("Divide both sides") = {}
                /\ StepsCalled("Simplify to get the answer") = {}
           ELSE /\ StepsCalled("Divide both sides") = {LastStep - 1}
                /\ StepsCalled("Simplify to get the answer") = {LastStep}
                /\ IsolationSteps[LastStep - 1].term = Lin(RZero, RInt(FinalCoefficient))
                /\ IsolationSteps[LastStep - 1].rhs = Lin(RZero, RInt(-FinalConstant))
                /\ IsolationSteps[LastStep].lhs = Lin(RInt(1), RZero)
                /\ IsolationSteps[LastStep].rhs =
                      Lin(RZero, Rat(-FinalConstant, FinalCoefficient))
\* A coefficient of 1 reached after a move: the trail ends with the
\* simplification of that move and the right side is the answer.
C19_UnitWitness ==
    /\ Isolated /\ FinalCoefficient = 1 /\ FinalConstant # 0
    /\ IsolationSteps[LastStep].description = "Simplify both sides"
    /\ IsolationSteps[LastStep].rhs = Lin(RZero, RInt(-FinalConstant))
\* A negative coefficient: the trail ends with the division by it.
C19_Witness ==
    /\ Isolated /\ FinalCoefficient < 0
    /\ IsolationSteps[LastStep - 1].description = "Divide both sides"

\* ---- no skipped algebra
\* An equation: its two sides, each a Lin.
LinSub(a, b) == Lin(RSub(a[1], b[1]), RSub(a[2], b[2]))
LinAdd(a, b) == Lin(RAdd(a[1], b[1]), RAdd(a[2], b[2]))
LinOver(a, q) == Lin(RDiv(a[1], q), RDiv(a[2], q))
\* The equation step i arrives at: a move or a division shows the equation it
\* is applied to and names the term or divisor; every other step shows the
\* equation it arrives at.
After(i) ==
    LET st == IsolationSteps[i]
    IN  IF i = 1 THEN <<LinOf(parse_side(st.lhs), TheVar), LinOf(parse_side(st.rhs), TheVar)>>
        ELSE IF st.description = "Subtract"
        THEN <<LinSub(st.lhs, st.term), LinSub(st.rhs, st.term)>>
        ELSE IF st.description = "Add"
        THEN <<LinAdd(st.lhs, st.term), LinAdd(st.rhs, st.term)>>
        ELSE IF st.description = "Divide both sides"
        THEN <<LinOver(st.lhs, st.term[2]), LinOver(st.rhs, st.term[2])>>
        ELSE <<st.lhs, st.rhs>>
\* The solutions of an equation between two Lins: one root, every number, or
\* none.
SolutionSet(e) ==
    LET a == RSub(e[1][1], e[2][1])
        b == RSub(e[1][2], e[2][2])
    IN  IF a # RZero THEN <<"one", RNeg(RDiv(b, a))>>
        ELSE IF b = RZero THEN <<"all", RZero>>
        ELSE <<"none", RZero>>

\* C20: no skipped algebra.  In every trail of the single-variable engine each
\* step's equation comes from applying the step's stated operation to the
\* equation of the step just before it, so every step's equation has the
\* solutions of the original equation.
C20_NoSkippedAlgebra ==
    Isolated =>
        \A i \in DOMAIN IsolationSteps :
            /\ i > 1 =>
                   <<IsolationSteps[i].lhs, IsolationSteps[i].rhs>> = After(i - 1)
            /\ SolutionSet(After(i)) = SolutionSet(After(1))
\* A trail that moves the variable term, moves the constant and divides.
C20_Witness ==
    /\ Isolated
    /\ StepsOfStage(4) # {} /\ StepsOfStage(5) # {}
    /\ StepsCalled("Divide both sides") # {}
    /\ SolutionSet(After(LastStep)) = <<"one", Rat(-FinalConstant, FinalCoefficient)>>

\* ---- systems without a solution
\* Two distinct parallel lines, solved in Exact mode.
NoSolution == TwoLines /\ Parallel /\ ~Coincident /\ Returned("symbolic")
\* The statement a step shows has no variable left and is false.
FalseConstants(st) ==
    /\ Support(st.lhs) \subseteq {"1"} /\ Support(st.rhs) \subseteq {"1"}
    /\ st.lhs["1"] # st.rhs["1"]
SubtractionAt(t) ==
    {i \in DOMAIN t.steps :
        t.steps[i].description = "Subtract equation (1) from equation (2)"}

\* C21: for every system without a solution solve raises no error and
\* returns a trail that subtracts equation (1) from equation (2) and then
\* shows the degenerate statement left over: every variable has cancelled and
\* the statement is a false equality between constants.  The trail is
\* classified inconsistent and has no verification steps.
C21_InconsistentTrail ==
    NoSolution =>
        /\ trail["symbolic"].kind = "trail"
        /\ trail["symbolic"].final_answer.tag = "inconsistent"
        /\ trail["symbolic"].verification_steps = <<>>
        /\ \E i \in SubtractionAt(trail["symbolic"]) :
               \A j \in DOMAIN trail["symbolic"].steps :
                   j > i => FalseConstants(trail["symbolic"].steps[j])
\* Parallel lines whose coefficients are not equal term by term: the
\* statement called a contradiction still holds a variable.
C21_Witness ==
    /\ NoSolution /\ trail["symbolic"].final_answer.tag = "inconsistent"
    /\ \E j \in DOMAIN trail["symbolic"].steps :
           /\ trail["symbolic"].steps[j].description = "Contradiction - No Solution"
           /\ Support(trail["symbolic"].steps[j].lhs) \ {"1"} # {}

\* ---- the narration of a 2 x 2 system
\* Two lines that meet in one point, solved in Exact mode.
UniquePoint == TwoLines /\ ~Parallel /\ Returned("symbolic")
\* The four narrated steps, whichever unknown is isolated first.
Narrations ==
    {<<"System of equations", "From equation (1), isolate " \o v,
       "Substitute into equation (2)", "Solve for " \o w,
       "Back-substitute to find " \o v>> :
        v \in {"x", "y"}, w \in {"x", "y"}}

\* C22: for every system of exactly two equations in two unknowns with a
\* unique solution the trail narrates, after showing the system, four steps in
\* this order: isolate one unknown from equation (1), substitute into
\* equation (2), solve for the other unknown, back-substitute.
C22_FourStepNarration ==
    UniquePoint =>
        /\ trail["symbolic"].kind = "trail"
        /\ Descriptions(trail["symbolic"]) \in Narrations
\* Equation (1) does not hold the first unknown: the trail shows the system
\* and a bare "Solution" step.
C22_Witness ==
    /\ UniquePoint /\ Line(1).a = 0
    /\ trail["symbolic"].kind = "trail"
    /\ trail["symbolic"].final_answer.tag = "unique"
    /\ Descriptions(trail["symbolic"]) = <<"System of equations", "Solution">>

\* ---- the verification of a system
SystemMethods ==
    {"Substitution Method", "Linear System Solver",
     "NumPy Linear Algebra (numpy.linalg.solve)"}
\* Mode m solved a system and verified its solution.
SystemVerified(m) ==
    op = "solve" /\ trail[m].kind = "trail" /\ trail[m].method \in SystemMethods
Verification(m) == trail[m].verification_steps
EquationChecks(m) == 2..(Len(Verification(m)) - 1)

\* C23: the verification of a system has one step per original equation, in
\* input order, each passing exactly when its two sides are equal at the
\* solution, and then a consolidated last step that reports all equations
\* verified only when every per-equation step passed.
C23_ConsolidatedVerification ==
    \A m \in Modes :
        SystemVerified(m) =>
            /\ Len(Verification(m)) = Len(TypedEquations) + 2
            /\ \A i \in EquationChecks(m) :
                  /\ Verification(m)[i].description = "Equation"
                  /\ Verification(m)[i].ok <=>
                         (Verification(m)[i].lhs = Verification(m)[i].rhs)
            /\ LastCheck(trail[m]).description = "All equations verified"
            /\ LastCheck(trail[m]).ok =>
                   \A i \in EquationChecks(m) : Verification(m)[i].ok
\* Two equations in one unknown that disagree, solved by least squares: both
\* per-equation steps fail and the last step still announces success.
C23_Witness ==
    /\ SystemVerified("numerical")
    /\ Len(var_names(Typed)) = 1
    /\ \A i \in EquationChecks("numerical") : ~Verification("numerical")[i].ok
    /\ LastCheck(trail["numerical"]).ok

\* ---- variable detection
\* The maximal alphabetic runs of the raw string, as intervals <<i, j>>.
IsLetter(ch) == ch \in ALLOWED_VARS
RunsOf(s) ==
    {r \in (DOMAIN s) \X (DOMAIN s) :
        /\ r[1] <= r[2]
        /\ \A k \in r[1]..r[2] : IsLetter(s[k])
        /\ r[1] = 1 \/ ~IsLetter(s[r[1] - 1])
        /\ r[2] = Len(s) \/ ~IsLetter(s[r[2] + 1])}
\* The function and constant names the detector is said to discard.
ReservedNames ==
    {<<"s", "i", "n">>, <<"c", "o", "s">>, <<"t", "a", "n">>, <<"l", "o", "g">>,
     <<"l", "n">>, <<"e", "x", "p">>, <<"s", "q", "r", "t">>, <<"p", "i">>,
     <<"a", "b", "s">>, <<"e">>}
\* A run that is one of the listed names, or one the code reserves besides.
ReservedRun(s, r) ==
    SubSeq(s, r[1], r[2]) \in ReservedNames \cup RESERVED
LettersLeft(s) ==
    UNION {{s[k] : k \in r[1]..r[2]} : r \in {q \in RunsOf(s) : ~ReservedRun(s, q)}}
Detected == lexed.kind # "pending"
Position(ch) == CHOOSE k \in DOMAIN LetterOrder : LetterOrder[k] = ch

\* C24: variable detection returns the sorted, duplicate-free letters of the
\* alphabetic runs that are not reserved names (sin, cos, tan, log, ln, exp,
\* sqrt, pi, abs, e, ...); a reserved run contributes no letter, and detection
\* fails with NoVariableFound when no letter remains.
C24_DetectedLetters ==
    Detected =>
        IF LettersLeft(source) = {}
        THEN lexed.kind = "raised" /\ lexed.error = "No variable found"
        ELSE /\ lexed.kind # "raised"
             /\ {lexed.variables[k] : k \in DOMAIN lexed.variables} = LettersLeft(source)
             /\ \A k \in 1..(Len(lexed.variables) - 1) :
                   Position(lexed.variables[k]) < Position(lexed.variables[k + 1])
\* The raw string holds the run e and no letter outside a reserved run, and
\* the detector returns the variable e.
C24_Witness ==
    /\ Detected
    /\ \E r \in RunsOf(source) : SubSeq(source, r[1], r[2]) = <<"e">>
    /\ LettersLeft(source) = {}
    /\ lexed.variables = <<"e">>

\* ---- reserved names at the parser
\* The parser is handed the expanded string.
Expanded == lexed.kind = "expanded"
\* The reserved names said to be left alone.
KeptNames ==
    {<<"s", "i", "n">>, <<"c", "o", "s">>, <<"t", "a", "n">>, <<"l", "o", "g">>,
     <<"l", "n">>, <<"e", "x", "p">>, <<"s", "q", "r", "t">>, <<"p", "i">>,
     <<"a", "b", "s">>}
\* The runs of the raw string in reading order, and what each is replaced by
\* when only the runs that are not reserved names are expanded.
KeptOrExpanded(tok) == IF tok \in KeptNames THEN tok ELSE star_join(tok)
RECURSIVE ExpandedKeeping(_, _)
ExpandedKeeping(s, i) ==
    IF i > Len(s) THEN <<>>
    ELSE IF ~IsLetter(s[i]) THEN <<s[i]>> \o ExpandedKeeping(s, i + 1)
    ELSE LET r == CHOOSE q \in RunsOf(s) : q[1] = i
         IN  KeptOrExpanded(SubSeq(s, r[1], r[2])) \o ExpandedKeeping(s, r[2] + 1)

\* C28: a reserved function or constant name in the input (sin, cos, tan, log,
\* ln, exp, sqrt, pi, abs) reaches the parser as typed, never as a product of
\* single-letter variables, whatever other letters the equation uses as
\* variables; the other runs are the only ones expanded.
C28_ReservedNamesKept ==
    Expanded => lexed.expanded = ExpandedKeeping(source, 1)
\* The raw string holds the name pi and, elsewhere, the variables p and i: the
\* parser is handed p*i in place of the name.
C28_Witness ==
    /\ Expanded
    /\ \E r \in RunsOf(source) : SubSeq(source, r[1], r[2]) = <<"p", "i">>
    /\ {"p", "i"} \subseteq {lexed.variables[k] : k \in DOMAIN lexed.variables}
    /\ \A k \in 1..(Len(lexed.expanded) - 1) :
          ~(lexed.expanded[k] = "p" /\ lexed.expanded[k + 1] = "i")

\* ---- one equation in several unknowns
\* The text is one well-formed equation in x and y built from x, y and
\* numbers alone.
TypedLinearMulti ==
    /\ op = "solve" /\ validate_characters(Typed) = {}
    /\ \A i \in DOMAIN Typed : Typed[i].t # "sep"
    /\ equation_shape_error(Typed) = ""
    /\ var_names(Typed) = <<"x", "y">>
    /\ \A i \in DOMAIN Typed : Typed[i].t = "term" => Typed[i].k \in {"1", "x", "y"}
\* The unknown v does not cancel out of the equation.
Isolable(v) == TypedLhs[v] # TypedRhs[v]
SolveForSteps(t) ==
    SelectSeq(Descriptions(t), LAMBDA d : d \in {"Solve for x", "Solve for y"})
ReportedFree(t, v) ==
    \E k \in DOMAIN t.final_answer.vals :
        t.final_answer.vals[k].var = v /\ t.final_answer.vals[k].val.form = "free"

\* C26: for one linear equation in several unknowns the trail has one
\* "Solve for v" step for each unknown v that can be isolated, in variable
\* order, and every unknown that cancels out of the equation is reported as
\* free in the final answer, in both modes.
C26_SolveForEachUnknown ==
    \A m \in Modes :
        (TypedLinearMulti /\ Returned(m)) =>
            /\ trail[m].kind = "trail"
            /\ SolveForSteps(trail[m]) =
                   SelectSeq(<<"Solve for x", "Solve for y">>,
                             LAMBDA d : \E v \in {"x", "y"} :
                                 Isolable(v) /\ d = "Solve for " \o v)
            /\ \A v \in {"x", "y"} : ~Isolable(v) => ReportedFree(trail[m], v)
\* x cancels and y does not: Exact mode solves for y and its final answer
\* does not mention x, while Approximate mode reports x as free.
C26_Witness ==
    /\ TypedLinearMulti /\ Isolable("y") /\ ~Isolable("x")
    /\ trail["symbolic"].kind = "trail"
    /\ SolveForSteps(trail["symbolic"]) = <<"Solve for y">>
    /\ \A k \in DOMAIN trail["symbolic"].final_answer.vals :
          trail["symbolic"].final_answer.vals[k].var # "x"
    /\ trail["numerical"].kind = "trail"
    /\ ReportedFree(trail["numerical"], "x")

\* ---- values for letters outside the equation
\* The caller gives a value for every unknown of the equation and for at
\* least one letter that does not occur in it.
ExtraValues ==
    /\ op = "substitution"
    /\ detect_variables(Typed) # {}
    /\ detect_variables(Typed) \subseteq user_values(values)
    /\ user_values(values) \ detect_variables(Typed) # {}

\* C29: solve_substitution fails only with a structured input error: given a
\* value for every unknown of the equation plus values for letters that do not
\* occur in it, the call returns a trail or raises the input-validation error,
\* never another kind of failure.
C29_OnlyInputErrors ==
    \A m \in Modes :
        (ExtraValues /\ Returned(m)) => trail[m].kind \in {"trail", "error"}
\* A well-formed equation in x with values for x, y and z: the call leaves
\* with a KeyError.
C29_Witness ==
    \E m \in Modes :
        /\ ExtraValues /\ validate_characters(Typed) = {}
        /\ equation_shape_error(Typed) = ""
        /\ trail[m].kind = "crash" /\ trail[m].error = "KeyError"

\* ---- the graph analyzer
\* The case that says what the engine's final answer says.
CaseOfOutcome(tag) ==
    IF tag = "unique" THEN "one_solution"
    ELSE IF tag \in {"inconsistent", "singular"} THEN "no_solution"
    ELSE IF tag = "dependent" THEN "infinite"
    ELSE "other"

\* C30: for every system of two linear equations in two unknowns the case of
\* the graph analyzer (one_solution, no_solution, infinite) agrees with the
\* outcome the engine reached for the same input (unique solution,
\* inconsistent, dependent).
C30_AnalyzerAgrees ==
    \A m \in Modes :
        (TwoLines /\ analysis[m].kind # "pending") =>
            /\ analysis[m].kind = "analysed"
            /\ analysis[m].case = CaseOfOutcome(trail[m].final_answer.tag)
\* Two coincident lines typed with an empty piece: the engine answers with
\* the dependent outcome and the analyzer with one_solution.
C30_Witness ==
    /\ TwoLines /\ Coincident
    /\ \E i \in DOMAIN SplitOn(Typed, "sep") : SplitOn(Typed, "sep")[i] = <<>>
    /\ trail["symbolic"].final_answer.tag = "dependent"
    /\ analysis["symbolic"] = Analysed("one_solution")

\* ---- cancellation by discard
\* C25: once the user has stopped a solve or cleared the chat, no result,
\* error or animation callback scheduled for the superseded solve draws
\* anything or advances the animation queue, in any interleaving.
C25_StaleCallbacksDiscarded ==
    fired.stale => fired.effect = "none"
\* A callback of a stopped solve has run an item of the queue that a later
\* solve built.
C25_Witness ==
    /\ fired.stale /\ fired.effect = "advance"
    /\ anim_queue.owner # 0 /\ anim_queue.owner # fired.owner
    /\ solves[anim_queue.owner].gen = solve_gen

\* ---- back to idle
Sent(n) == solves[n].state # "unsent"
\* The "Processing..." label of solve n is gone and the input is enabled.
Idle(n) == ~solves[n].loading /\ input_enabled

\* C27: every solve started by _on_send eventually returns the window to
\* idle: its "Processing..." label is eventually destroyed and the input is
\* re-enabled, whether the solve finished and was animated, failed, was
\* stopped, or the chat was cleared while the thread computed.
C27_EventuallyIdle ==
    \A n \in 1..MaxSends : Sent(n) ~> Idle(n)
\* A solve stopped while its thread computed: the thread has ended, its
\* callback was discarded, nothing is scheduled, and the label still stands.
C27_Witness ==
    \E n \in 1..MaxSends :
        /\ solves[n].state = "posted" /\ solves[n].gen # solve_gen
        /\ solves[n].loading /\ input_enabled
        /\ timers = {}

====
